---- MODULE Spec2Model ----
(***************************************************************************)
(* Term allocation and specificity enforcement of the job-specific         *)
(* business-process table generator (streamlit_app_v5.py,                  *)
(* domain_profiles.py).                                                    *)
(*                                                                         *)
(* Affinity scores are kept in tenths (0.6 is 6), so that the comparisons  *)
(* of the source are comparisons of integers.                              *)
(***************************************************************************)
EXTENDS Integers, Sequences, FiniteSets, TLC

VARIABLES
    profile_name,        \* session -> name of the profile _load_profile returns
    job_specific_info,   \* session -> analyzer.job_specific_info (category -> terms)
    assignments,         \* session -> plan built by the last allocation pass
    usage_count,         \* the counter of the allocation pass that ran last
    prev_assignments,    \* session -> plan of the pass before the last one
    total_placed,        \* session -> term -> placements summed over all passes
    calls,               \* session -> number of allocation passes run
    bp_data,             \* the table object the caller of the enforcer holds
    enforcer_rep,        \* the vocabulary (rep) the enforcer is given
    returned,            \* the value the last enforcement returned
    bp_before,           \* the caller's table when the last enforcement began
    rep_before,          \* the vocabulary when the last enforcement began
    usage_seen,          \* (phase, field) -> term_usage_count when it was visited
    usage_after,         \* term_usage_count when the last enforcement ended
    runs,                \* number of enforcements run
    validator_in,        \* what the validator reads: vocabulary, profile, table
    validation,          \* what the last validation returned
    filtering,           \* a raw list of one category and what the filters made of it
    session_state,       \* st.session_state: the keys, job_info, bp_data, the validation
    last_click           \* the button handled last and what it had validated

alloc_vars == <<profile_name, job_specific_info, assignments, usage_count,
                prev_assignments, total_placed, calls>>

enforce_vars == <<bp_data, enforcer_rep, returned, bp_before, rep_before,
                  usage_seen, usage_after, runs>>

validate_vars == <<validator_in, validation>>

filter_vars == <<filtering>>

ui_vars == <<session_state, last_click>>

vars == <<alloc_vars, enforce_vars, validate_vars, filter_vars, ui_vars>>

----------------------------------------------------------------------------
(* Bounds of the model *)

MaxCalls == 6
LongLen == 11
MaxVocab == 3
MaxRuns == 2

----------------------------------------------------------------------------
(* Identifiers *)

Sessions == {"s1", "s2"}

Categories ==
    << "materials_or_products", "tools_and_equipment", "processes",
       "industry_specific_kpi", "constraints_or_regulations",
       "common_failures", "stakeholders", "deliverables" >>

CategorySet == { Categories[i] : i \in 1..Len(Categories) }

phase_keys ==
    << "phase_1", "phase_2", "phase_3", "phase_4", "phase_5", "phase_6", "phase_7" >>

PhaseSet == { phase_keys[i] : i \in 1..Len(phase_keys) }

TermSet == {"NCM811", "XRD"}

----------------------------------------------------------------------------
(* domain_profiles.py *)

\* the scores of one category, phase_1 .. phase_7
Scores(p1, p2, p3, p4, p5, p6, p7) ==
    [ phase_1 |-> p1, phase_2 |-> p2, phase_3 |-> p3, phase_4 |-> p4,
      phase_5 |-> p5, phase_6 |-> p6, phase_7 |-> p7 ]

PHASE_AFFINITY_MAP ==
    [ materials_or_products      |-> Scores(8, 9, 10, 7, 3, 2, 4),
      tools_and_equipment        |-> Scores(7, 2, 8, 10, 9, 1, 5),
      processes                  |-> Scores(3, 4, 10, 9, 6, 2, 7),
      industry_specific_kpi      |-> Scores(5, 9, 7, 6, 10, 4, 8),
      constraints_or_regulations |-> Scores(10, 9, 3, 2, 8, 7, 4),
      common_failures            |-> Scores(4, 5, 8, 7, 9, 3, 10),
      stakeholders               |-> Scores(5, 5, 5, 5, 5, 5, 5),
      deliverables               |-> Scores(6, 7, 9, 5, 10, 8, 6) ]

ProfileNames == {"ev_materials", "generic"}

\* profile["core_terms"], restricted to the terms of the model
core_terms(profile) ==
    IF profile = "ev_materials" THEN {"NCM811"} ELSE {}

----------------------------------------------------------------------------
(* generate_bp_with_job_info: the allocation pass *)

affinity_threshold == 6
max_reuse_standard == 3
max_reuse_core == 5

\* job_info.get(cat, [])
Get(job_info, cat) == IF cat \in DOMAIN job_info THEN job_info[cat] ELSE << >>

\* items[:limit]
subset(items, limit) ==
    IF Len(items) <= limit THEN items ELSE SubSeq(items, 1, limit)

SubsetLimit(cat) ==
    IF cat \in {"materials_or_products", "processes", "stakeholders"} THEN 10 ELSE 8

rep(job_info) == [ c \in CategorySet |-> subset(Get(job_info, c), SubsetLimit(c)) ]

\* affinity_map.get(cat, {}).get(pk, 0)
Score(cat, pk) ==
    IF cat \in DOMAIN PHASE_AFFINITY_MAP /\ pk \in DOMAIN PHASE_AFFINITY_MAP[cat]
    THEN PHASE_AFFINITY_MAP[cat][pk]
    ELSE 0

RemoveAt(seq, i) == SubSeq(seq, 1, i - 1) \o SubSeq(seq, i + 1, Len(seq))

\* SortedDescending with equal keys in reverse order: the last of the best first
RECURSIVE SortedDescendingTiesReversed(_, _)
SortedDescendingTiesReversed(keys, cat) ==
    IF keys = << >> THEN << >>
    ELSE LET first == CHOOSE i \in 1..Len(keys) :
                        \A j \in 1..Len(keys) :
                            \/ Score(cat, keys[j]) < Score(cat, keys[i])
                            \/ Score(cat, keys[j]) = Score(cat, keys[i]) /\ i >= j
         IN  << keys[first] >> \o SortedDescendingTiesReversed(RemoveAt(keys, first), cat)

\* sorted(keys, key=score, reverse=True): descending, equal keys keep their order
RECURSIVE SortedDescending(_, _)
SortedDescending(keys, cat) ==
    IF keys = << >> THEN << >>
    ELSE LET first == CHOOSE i \in 1..Len(keys) :
                        \A j \in 1..Len(keys) :
                            \/ Score(cat, keys[j]) < Score(cat, keys[i])
                            \/ Score(cat, keys[j]) = Score(cat, keys[i]) /\ i <= j
         IN  << keys[first] >> \o SortedDescending(RemoveAt(keys, first), cat)

\* the ranking depends on the category alone: it is computed once for each
SortedPhasesOf == [ c \in CategorySet |-> SortedDescending(phase_keys, c) ]

sorted_phases(cat) == SortedPhasesOf[cat]

NotPlaced == "not_placed"

\* WalkPhases with the threshold test inverted: the first phase below the
\* threshold takes the term
RECURSIVE WalkPhasesInverted(_, _, _)
WalkPhasesInverted(cat, sorted, i) ==
    IF i > Len(sorted) THEN NotPlaced
    ELSE IF Score(cat, sorted[i]) >= affinity_threshold
         THEN WalkPhasesInverted(cat, sorted, i + 1)
         ELSE sorted[i]

\* the loop over sorted_phases: the phase the term is appended to, if any
RECURSIVE WalkPhases(_, _, _)
WalkPhases(cat, sorted, i) ==
    IF i > Len(sorted) THEN NotPlaced
    ELSE LET pk == sorted[i]
             score == Score(cat, pk)
         IN  IF score < affinity_threshold
             THEN IF pk = sorted[1] THEN pk ELSE WalkPhases(cat, sorted, i + 1)
             ELSE pk

\* PlacedPhase without the forced placement: a term of a category none of whose
\* phases reaches the threshold is dropped
PlacedPhaseThresholdOnly(cat) ==
    LET sorted == sorted_phases(cat)
    IN  IF Score(cat, sorted[1]) >= affinity_threshold THEN sorted[1] ELSE NotPlaced

\* the phase one visit of a term below its cap appends the term to: the phase
\* the loop picks, or sorted_phases[0] when the loop placed nothing
PlacedPhase(cat) ==
    LET sorted == sorted_phases(cat)
        walked == WalkPhases(cat, sorted, 1)
    IN  IF walked = NotPlaced /\ sorted # << >> THEN sorted[1] ELSE walked

ChosenPhaseOf == [ c \in CategorySet |-> PlacedPhase(c) ]

\* ChosenPhase with the walk going on as long as the threshold is reached: the
\* lowest-ranked phase that reaches it takes the term
ChosenPhaseLowestReaching(cat) ==
    LET sorted == sorted_phases(cat)
        reach  == { i \in 1..Len(sorted) : Score(cat, sorted[i]) >= affinity_threshold }
    IN  IF reach = {} THEN sorted[1]
        ELSE sorted[CHOOSE i \in reach : \A j \in reach : i >= j]

ChosenPhase(cat) == ChosenPhaseOf[cat]

ReuseLimit(term, core_terms_set) ==
    IF term \in core_terms_set THEN max_reuse_core ELSE max_reuse_standard

\* AtLimit off by one: the term is skipped only above the limit
AtLimitOffByOne(current, limit) == current > limit

\* current >= limit: the term is skipped
AtLimit(current, limit) == current >= limit

EmptyAssignments == [ pk \in PhaseSet |-> [ c \in CategorySet |-> << >> ] ]

EmptyUsage == [ t \in TermSet |-> 0 ]

\* FreshUsage with the counter kept from pass to pass
KeptUsage(previous) == previous

\* usage_count = {} at the start of every pass; previous is the counter the
\* pass before left behind
FreshUsage(previous) == EmptyUsage

\* VisitTerm with the count kept for each (category, term): the visit counts
\* what its own category has placed of the term
VisitTermPerCategory(st, cat, term, core_terms_set) ==
    LET limit == ReuseLimit(term, core_terms_set)
        pk == ChosenPhase(cat)
        current == IF pk = NotPlaced THEN 0
                   ELSE Len(SelectSeq(st.assignments[pk][cat], LAMBDA x : x = term))
    IN  IF AtLimit(current, limit) \/ pk = NotPlaced
        THEN st
        ELSE [ assignments |->
                 [ st.assignments EXCEPT ![pk][cat] = Append(@, term) ],
               usage_count |->
                 [ st.usage_count EXCEPT ![term] = @ + 1 ] ]

\* one iteration of "for term in terms"
VisitTerm(st, cat, term, core_terms_set) ==
    LET limit == ReuseLimit(term, core_terms_set)
        current == st.usage_count[term]
        pk == ChosenPhase(cat)
    IN  IF AtLimit(current, limit) \/ pk = NotPlaced
        THEN st
        ELSE [ assignments |->
                 [ st.assignments EXCEPT ![pk][cat] = Append(@, term) ],
               usage_count |->
                 [ st.usage_count EXCEPT ![term] = current + 1 ] ]

RECURSIVE VisitTerms(_, _, _, _, _)
VisitTerms(st, cat, terms, i, core_terms_set) ==
    IF i > Len(terms) THEN st
    ELSE VisitTerms(VisitTerm(st, cat, terms[i], core_terms_set),
                    cat, terms, i + 1, core_terms_set)

\* "for cat, terms in rep.items()": the categories in the order rep lists them
RECURSIVE VisitCategories(_, _, _, _)
VisitCategories(st, r, k, core_terms_set) ==
    IF k > Len(Categories) THEN st
    ELSE VisitCategories(
             VisitTerms(st, Categories[k], r[Categories[k]], 1, core_terms_set),
             r, k + 1, core_terms_set)

AllocationPass(job_info, core_terms_set, usage0) ==
    VisitCategories([ assignments |-> EmptyAssignments, usage_count |-> usage0 ],
                    rep(job_info), 1, core_terms_set)

----------------------------------------------------------------------------
(* Counting helpers *)

RECURSIVE Count(_, _)
Count(seq, x) ==
    IF seq = << >> THEN 0
    ELSE (IF Head(seq) = x THEN 1 ELSE 0) + Count(Tail(seq), x)

RECURSIVE SumOver(_, _)
SumOver(f, S) ==
    IF S = {} THEN 0
    ELSE LET x == CHOOSE y \in S : TRUE IN f[x] + SumOver(f, S \ {x})

Cells == PhaseSet \X CategorySet

\* the cells of a plan that hold the term
CellsWith(plan, term) ==
    { cell \in Cells : Count(plan[cell[1]][cell[2]], term) > 0 }

\* how often the term occurs in the plan, over all cells
Placements(plan, term) ==
    SumOver([ cell \in Cells |-> Count(plan[cell[1]][cell[2]], term) ], Cells)

\* how often the pass visits the term, over all categories
Visits(job_info, term) ==
    SumOver([ c \in CategorySet |-> Count(rep(job_info)[c], term) ], CategorySet)

----------------------------------------------------------------------------
(* The allocation pass as an operation of a session *)

Generate(s) ==
    /\ DOMAIN job_specific_info[s] # {}
    /\ LET res == AllocationPass(job_specific_info[s],
                                 core_terms(profile_name[s]),
                                 FreshUsage(usage_count))
       IN  /\ assignments' = [ assignments EXCEPT ![s] = res.assignments ]
           /\ usage_count' = res.usage_count
           /\ total_placed' =
                [ total_placed EXCEPT ![s] =
                    [ t \in TermSet |-> @[t] + Placements(res.assignments, t) ] ]
    /\ prev_assignments' = [ prev_assignments EXCEPT ![s] = assignments[s] ]
    /\ calls' = [ calls EXCEPT ![s] = @ + 1 ]
    /\ UNCHANGED << profile_name, job_specific_info, enforce_vars, validate_vars,
                    filter_vars, ui_vars >>

----------------------------------------------------------------------------
(* Text: a string is the sequence of its characters *)

UpperCase ==
    << "A", "B", "C", "D", "E", "F", "G", "H", "I", "J", "K", "L", "M",
       "N", "O", "P", "Q", "R", "S", "T", "U", "V", "W", "X", "Y", "Z" >>

LowerCase ==
    << "a", "b", "c", "d", "e", "f", "g", "h", "i", "j", "k", "l", "m",
       "n", "o", "p", "q", "r", "s", "t", "u", "v", "w", "x", "y", "z" >>

LowerOf ==
    [ ch \in { UpperCase[i] : i \in 1..Len(UpperCase) } |->
        LowerCase[CHOOSE i \in 1..Len(UpperCase) : UpperCase[i] = ch] ]

LowerChar(ch) == IF ch \in DOMAIN LowerOf THEN LowerOf[ch] ELSE ch

\* str.lower()
lower(text) == [ i \in 1..Len(text) |-> LowerChar(text[i]) ]

\* part in text
Contains(text, part) ==
    \/ part = << >>
    \/ \E k \in 0..(Len(text) - Len(part)) :
          /\ text[k + 1] = part[1]
          /\ SubSeq(text, k + 1, k + Len(part)) = part

\* sep.join(parts)
RECURSIVE JoinRange(_, _, _, _)
JoinRange(sep, parts, lo, hi) ==
    IF lo = hi THEN parts[lo]
    ELSE JoinRange(sep, parts, lo, (lo + hi) \div 2)
           \o sep \o JoinRange(sep, parts, ((lo + hi) \div 2) + 1, hi)

Join(sep, parts) ==
    IF parts = << >> THEN << >> ELSE JoinRange(sep, parts, 1, Len(parts))

SlashSep == << " ", "/", " " >>
CommaSep == << ",", " " >>
ColonSep == << " ", ":", " " >>

----------------------------------------------------------------------------
(* _enforce_specificity *)

Fields ==
    { "phase_name", "activities", "inputs", "outputs", "tools", "stakeholders",
      "kpi", "risks", "countermeasures" }

\* the fields the enforcer checks, in the order it checks them
CheckedFields == << "activities", "tools", "inputs", "outputs", "kpi", "risks" >>

CheckedFieldSet == { CheckedFields[i] : i \in 1..Len(CheckedFields) }

\* an entry of the table: a dict of fields, or a value that is no dict
Dict(fields) == [ dict |-> fields ]
NotADict == [ other |-> TRUE ]
IsDict(entry) == "dict" \in DOMAIN entry

\* phase.get(field, '')
FieldOf(phase, field) ==
    IF field \in DOMAIN phase.dict THEN phase.dict[field] ELSE << >>

\* SetField that writes only the fields the record has
SetFieldIfPresent(phase, field, text) ==
    Dict(IF field \in DOMAIN phase.dict
         THEN [ phase.dict EXCEPT ![field] = text ]
         ELSE phase.dict)

\* phase[field] = text
SetField(phase, field, text) ==
    Dict(IF field \in DOMAIN phase.dict
         THEN [ phase.dict EXCEPT ![field] = text ]
         ELSE phase.dict @@ (field :> text))

\* term_usage_count.get(term, 0)
UsageOf(term_usage_count, term) ==
    IF term \in DOMAIN term_usage_count THEN term_usage_count[term] ELSE 0

\* term_usage_count[term] = term_usage_count.get(term, 0) + 1
Used(term_usage_count, term) ==
    IF term \in DOMAIN term_usage_count
    THEN [ term_usage_count EXCEPT ![term] = @ + 1 ]
    ELSE term_usage_count @@ (term :> 1)

\* the value of e, computed once, handed to Op
Bind(e, Op(_)) == CHOOSE y \in { Op(x) : x \in {e} } : TRUE

\* any(t.lower() in text.lower() for t in term_list if t)
has_any(term_list, text) ==
    \E lowered \in { lower(text) } :
        \E i \in 1..Len(term_list) :
            /\ term_list[i] # << >>
            /\ \E part \in { lower(term_list[i]) } : Contains(lowered, part)

DefaultAffinity == 5
UsagePenalty == 3
UsageCap == 3

\* PHASE_AFFINITY_MAP.get(category_key, {}).get(phase_key, 0.5)
PhaseAffinity(category_key, phase_key) ==
    IF category_key \in DOMAIN PHASE_AFFINITY_MAP
    THEN IF phase_key \in DOMAIN PHASE_AFFINITY_MAP[category_key]
         THEN PHASE_AFFINITY_MAP[category_key][phase_key]
         ELSE DefaultAffinity
    ELSE DefaultAffinity

ExhaustedAtOnce(used) == used >= 1

\* a term that was selected UsageCap times is not a candidate
Exhausted(used) == used >= UsageCap

\* the (term, score) pairs of the terms that are candidates, in list order
ScoredTerms(available_terms, phase_affinity, term_usage_count) ==
    SelectSeq([ i \in 1..Len(available_terms) |->
                  [ term  |-> available_terms[i],
                    used  |-> UsageOf(term_usage_count, available_terms[i]),
                    score |-> phase_affinity
                                - UsageOf(term_usage_count, available_terms[i])
                                    * UsagePenalty ] ],
              LAMBDA scored : ~ Exhausted(scored.used))

\* the place of the i-th pair once the pairs are sorted by descending score,
\* pairs of equal score keeping their order
Rank(scored, i) ==
    1 + Cardinality({ j \in 1..Len(scored) :
                        \/ scored[j].score > scored[i].score
                        \/ scored[j].score = scored[i].score /\ j < i })

\* scored_terms.sort(key=score, reverse=True)
SortByScore(scored) ==
    [ k \in 1..Len(scored) |->
        scored[CHOOSE i \in 1..Len(scored) : Rank(scored, i) = k] ]

RECURSIVE UsedAll(_, _)
UsedAll(term_usage_count, selected) ==
    IF selected = << >> THEN term_usage_count
    ELSE UsedAll(Used(term_usage_count, Head(selected)), Tail(selected))

\* Selected without the slice: the terms of all the pairs
SelectedAll(sorted, count) == [ i \in 1..Len(sorted) |-> sorted[i].term ]

\* the terms of the first count pairs
Selected(sorted, count) ==
    [ i \in 1..Len(subset(sorted, count)) |-> sorted[i].term ]

\* the selected terms, and the counter after the selection
select_best_terms(category_key, phase_key, available_terms, count, term_usage_count) ==
    IF available_terms = << >>
    THEN [ selected |-> << >>, term_usage_count |-> term_usage_count ]
    ELSE Bind(ScoredTerms(available_terms, PhaseAffinity(category_key, phase_key),
                          term_usage_count),
              LAMBDA scored_terms :
                  Bind(SortByScore(scored_terms),
                       LAMBDA sorted :
                           Bind(Selected(sorted, count),
                                LAMBDA selected :
                                    [ selected |-> selected,
                                      term_usage_count |->
                                          UsedAll(term_usage_count, selected) ])))

\* select_best_terms(first ...) or select_best_terms(second ...)
SelectEither(cat1, cat2, pk, r, term_usage_count) ==
    Bind(select_best_terms(cat1, pk, Get(r, cat1), 1, term_usage_count),
         LAMBDA one :
             IF one.selected # << >> THEN one
             ELSE select_best_terms(cat2, pk, Get(r, cat2), 1, one.term_usage_count))

\* the tests that decide whether a field is repaired
NeedsActivities(r, act) ==
    \/ ~ has_any(Get(r, "processes"), act)
    \/ ~ ( \/ has_any(Get(r, "materials_or_products"), act)
           \/ has_any(Get(r, "tools_and_equipment"), act) )

NeedsTools(r, tval) == ~ has_any(Get(r, "tools_and_equipment"), tval)

NeedsInputs(r, inval) ==
    ~ ( \/ has_any(Get(r, "materials_or_products"), inval)
        \/ has_any(Get(r, "deliverables"), inval) )

NeedsOutputs(r, outval) == ~ has_any(Get(r, "deliverables"), outval)

NeedsKpiAlways(r, kpival) == TRUE

NeedsKpi(r, kpival) == ~ has_any(Get(r, "industry_specific_kpi"), kpival)

NeedsRisks(r, rsk) == ~ has_any(Get(r, "common_failures"), rsk)

ActivitiesTextBare(inject_parts, act) == Join(SlashSep, inject_parts)

\* the texts a repaired field is given
ActivitiesText(inject_parts, act) == Join(SlashSep, inject_parts) \o ColonSep \o act
ToolsText(selected_tools, tval) == Join(CommaSep, selected_tools)
InputsText(selected_inputs, inval) == Join(SlashSep, selected_inputs) \o SlashSep \o inval
OutputsText(selected_outputs, outval) ==
    Join(SlashSep, selected_outputs) \o SlashSep \o outval
KpiText(selected_kpis, kpival) == Join(CommaSep, selected_kpis) \o CommaSep \o kpival
RisksText(selected_failures, rsk) ==
    Join(SlashSep, selected_failures) \o SlashSep \o rsk

\* st is [bp_data, term_usage_count, seen]; seen records the counter each
\* field was visited with
Visit(st, pk, field) ==
    [ st EXCEPT !.seen = @ @@ (<< pk, field >> :> st.term_usage_count) ]

Repair(st, pk, field, text, term_usage_count) ==
    [ st EXCEPT !.bp_data[pk] = SetField(@, field, text),
                !.term_usage_count = term_usage_count ]

EnforceActivities(st, pk, r) ==
    LET act == FieldOf(st.bp_data[pk], "activities")
    IN  IF ~ NeedsActivities(r, act) THEN st
        ELSE Bind(select_best_terms("processes", pk, Get(r, "processes"), 1,
                                    st.term_usage_count),
                  LAMBDA selected_proc :
                      Bind(SelectEither("materials_or_products", "tools_and_equipment",
                                        pk, r, selected_proc.term_usage_count),
                           LAMBDA selected_mat_or_tool :
                               IF selected_proc.selected \o selected_mat_or_tool.selected
                                      = << >>
                               THEN st
                               ELSE Repair(st, pk, "activities",
                                           ActivitiesText(selected_proc.selected
                                                            \o selected_mat_or_tool.selected,
                                                          act),
                                           selected_mat_or_tool.term_usage_count)))

EnforceTools(st, pk, r) ==
    LET tval == FieldOf(st.bp_data[pk], "tools")
    IN  IF ~ NeedsTools(r, tval) THEN st
        ELSE Bind(select_best_terms("tools_and_equipment", pk,
                                    Get(r, "tools_and_equipment"), 3,
                                    st.term_usage_count),
                  LAMBDA sel :
                      IF sel.selected = << >> THEN st
                      ELSE Repair(st, pk, "tools", ToolsText(sel.selected, tval),
                                  sel.term_usage_count))

EnforceInputs(st, pk, r) ==
    LET inval == FieldOf(st.bp_data[pk], "inputs")
    IN  IF ~ NeedsInputs(r, inval) THEN st
        ELSE Bind(SelectEither("materials_or_products", "deliverables", pk, r,
                               st.term_usage_count),
                  LAMBDA sel :
                      IF sel.selected = << >> THEN st
                      ELSE Repair(st, pk, "inputs", InputsText(sel.selected, inval),
                                  sel.term_usage_count))

EnforceOutputs(st, pk, r) ==
    LET outval == FieldOf(st.bp_data[pk], "outputs")
    IN  IF ~ NeedsOutputs(r, outval) THEN st
        ELSE Bind(select_best_terms("deliverables", pk, Get(r, "deliverables"), 2,
                                    st.term_usage_count),
                  LAMBDA sel :
                      IF sel.selected = << >> THEN st
                      ELSE Repair(st, pk, "outputs", OutputsText(sel.selected, outval),
                                  sel.term_usage_count))

EnforceKpi(st, pk, r) ==
    LET kpival == FieldOf(st.bp_data[pk], "kpi")
    IN  IF ~ NeedsKpi(r, kpival) THEN st
        ELSE Bind(select_best_terms("industry_specific_kpi", pk,
                                    Get(r, "industry_specific_kpi"), 2,
                                    st.term_usage_count),
                  LAMBDA sel :
                      IF sel.selected = << >> THEN st
                      ELSE Repair(st, pk, "kpi", KpiText(sel.selected, kpival),
                                  sel.term_usage_count))

EnforceRisks(st, pk, r) ==
    LET rsk == FieldOf(st.bp_data[pk], "risks")
    IN  IF ~ NeedsRisks(r, rsk) THEN st
        ELSE Bind(select_best_terms("common_failures", pk,
                                    Get(r, "common_failures"), 2,
                                    st.term_usage_count),
                  LAMBDA sel :
                      IF sel.selected = << >> THEN st
                      ELSE Repair(st, pk, "risks", RisksText(sel.selected, rsk),
                                  sel.term_usage_count))

\* the check and the repair of one field
EnforceField(st, pk, f, r) ==
    CASE f = "activities" -> EnforceActivities(st, pk, r)
      [] f = "tools"      -> EnforceTools(st, pk, r)
      [] f = "inputs"     -> EnforceInputs(st, pk, r)
      [] f = "outputs"    -> EnforceOutputs(st, pk, r)
      [] f = "kpi"        -> EnforceKpi(st, pk, r)
      [] f = "risks"      -> EnforceRisks(st, pk, r)

\* the fields of one phase, from the i-th on, in the order of CheckedFields
RECURSIVE EnforceFields(_, _, _, _)
EnforceFields(st, pk, i, r) ==
    IF i > Len(CheckedFields) THEN st
    ELSE Bind(Visit(st, pk, CheckedFields[i]),
              LAMBDA visited :
                  Bind(EnforceField(visited, pk, CheckedFields[i], r),
                       LAMBDA next : EnforceFields(next, pk, i + 1, r)))

\* the body of "for pk in phase_keys"
EnforcePhase(st, pk, r) ==
    IF pk \notin DOMAIN st.bp_data THEN st
    ELSE IF ~ IsDict(st.bp_data[pk]) THEN st
    ELSE EnforceFields(st, pk, 1, r)

RECURSIVE EnforcePhases(_, _, _)
EnforcePhases(st, n, r) ==
    IF n > Len(phase_keys) THEN st
    ELSE Bind(EnforcePhase(st, phase_keys[n], r),
              LAMBDA next : EnforcePhases(next, n + 1, r))

NothingSeen == [ x \in {} |-> 0 ]
NoUsage == [ x \in {} |-> 0 ]

\* the table as the pass leaves it, with the counter and the record of visits
EnforcementPass(table, r) ==
    IF DOMAIN table = {}
    THEN [ bp_data |-> table, term_usage_count |-> NoUsage, seen |-> NothingSeen ]
    ELSE EnforcePhases([ bp_data |-> table, term_usage_count |-> NoUsage,
                         seen |-> NothingSeen ], 1, r)

CallerTableKept(table, repaired) == table

\* the phases are repaired in the dict the caller passed (phase = bp_data.get(pk),
\* phase[field] = ...): the caller's table after the call is the repaired one
CallerTableAfter(table, repaired) == repaired

\* return bp_data
_enforce_specificity(table, r) ==
    Bind(EnforcementPass(table, r),
         LAMBDA pass : [ caller |-> CallerTableAfter(table, pass.bp_data),
                         result |-> pass.bp_data,
                         seen   |-> pass.seen,
                         term_usage_count |-> pass.term_usage_count ])

Enforce ==
    /\ \E out \in { _enforce_specificity(bp_data, enforcer_rep) } :
           /\ bp_data' = out.caller
           /\ returned' = out.result
           /\ usage_seen' = out.seen
           /\ usage_after' = out.term_usage_count
    /\ bp_before' = bp_data
    /\ rep_before' = enforcer_rep
    /\ runs' = runs + 1
    /\ UNCHANGED << enforcer_rep, alloc_vars, validate_vars, filter_vars, ui_vars >>

----------------------------------------------------------------------------
(* Tables and vocabularies the enforcer is given *)

Digits == << "1", "2", "3", "4", "5", "6", "7", "8", "9" >>

\* the i-th term of a category: a letter for the category and a digit
Term(letter, i) == << letter, Digits[i] >>

TermList(letter, n) == [ i \in 1..n |-> Term(letter, i) ]

Letter ==
    [ materials_or_products      |-> "M",
      tools_and_equipment        |-> "T",
      processes                  |-> "P",
      industry_specific_kpi      |-> "K",
      constraints_or_regulations |-> "R",
      common_failures            |-> "F",
      stakeholders               |-> "S",
      deliverables               |-> "D" ]

FullSize == 8

\* n terms in every category
UniformRep(n) == [ c \in CategorySet |-> TermList(Letter[c], n) ]

\* n terms in every category but one, which has none
EmptiedRep(c0, n) == [ UniformRep(n) EXCEPT ![c0] = << >> ]

\* one term in every category, the one of processes listed under materials too
SharedRep == [ UniformRep(1) EXCEPT !["materials_or_products"] = << Term("P", 1) >> ]

EnforcerReps ==
    { UniformRep(n) : n \in (0..MaxVocab) \cup {FullSize} }
      \cup { EmptiedRep(c, n) : c \in CategorySet \ {"constraints_or_regulations",
                                                     "stakeholders"},
                                n \in {1, FullSize} }
      \cup { SharedRep }

GenericText == << "x" >>

\* a text that holds the first term of the field's category, in either case
SpecificText ==
    [ activities |-> << "p", "1", " ", "m", "1" >>,
      tools      |-> << "t", "1" >>,
      inputs     |-> << "d", "1" >>,
      outputs    |-> << "D", "1" >>,
      kpi        |-> << "k", "1" >>,
      risks      |-> << "F", "1" >> ]

RecordWith(S) == [ f \in Fields |-> IF f \in S THEN SpecificText[f] ELSE GenericText ]

PhaseRecords ==
    { RecordWith({}), RecordWith(CheckedFieldSet) }
      \cup { RecordWith({f}) : f \in CheckedFieldSet }
      \cup { RecordWith(CheckedFieldSet \ {f}) : f \in CheckedFieldSet }
      \cup { [ RecordWith({}) EXCEPT !["activities"] = Term(l, 1) ] :
               l \in {"P", "M", "T"} }

\* every phase holds the base record, but one
TableOf(base, pk0, special) ==
    [ pk \in PhaseSet |-> Dict(IF pk = pk0 THEN special ELSE base) ]

Tables ==
    { TableOf(base, pk0, special) :
        base \in { RecordWith({}), RecordWith(CheckedFieldSet) },
        pk0 \in PhaseSet, special \in PhaseRecords }

EmptyTable == [ x \in {} |-> NotADict ]

EnforceIdle ==
    /\ bp_data = EmptyTable
    /\ enforcer_rep = UniformRep(0)
    /\ returned = EmptyTable
    /\ bp_before = EmptyTable
    /\ rep_before = UniformRep(0)
    /\ usage_seen = NothingSeen
    /\ usage_after = NoUsage
    /\ runs = 0

----------------------------------------------------------------------------
(* json.dumps and the text measures of the validator.  A character that is
   not ASCII is written as its code point. *)

\* the characters of the keys of a table
KeyText ==
    [ phase_1         |-> << "p", "h", "a", "s", "e", "_", "1" >>,
      phase_2         |-> << "p", "h", "a", "s", "e", "_", "2" >>,
      phase_3         |-> << "p", "h", "a", "s", "e", "_", "3" >>,
      phase_4         |-> << "p", "h", "a", "s", "e", "_", "4" >>,
      phase_5         |-> << "p", "h", "a", "s", "e", "_", "5" >>,
      phase_6         |-> << "p", "h", "a", "s", "e", "_", "6" >>,
      phase_7         |-> << "p", "h", "a", "s", "e", "_", "7" >>,
      phase_name      |-> << "p", "h", "a", "s", "e", "_", "n", "a", "m", "e" >>,
      activities      |-> << "a", "c", "t", "i", "v", "i", "t", "i", "e", "s" >>,
      inputs          |-> << "i", "n", "p", "u", "t", "s" >>,
      outputs         |-> << "o", "u", "t", "p", "u", "t", "s" >>,
      tools           |-> << "t", "o", "o", "l", "s" >>,
      stakeholders    |-> << "s", "t", "a", "k", "e", "h", "o", "l", "d", "e", "r", "s" >>,
      kpi             |-> << "k", "p", "i" >>,
      risks           |-> << "r", "i", "s", "k", "s" >>,
      countermeasures |-> << "c", "o", "u", "n", "t", "e", "r", "m", "e", "a", "s", "u", "r", "e", "s" >> ]

\* the fields of a phase record, in the order the record lists them
FieldOrder ==
    << "phase_name", "activities", "inputs", "outputs", "tools", "stakeholders",
       "kpi", "risks", "countermeasures" >>

Quote == << "\"" >>
Newline == << "\n" >>

\* "<key>": 
JsonKey(key) == Quote \o KeyText[key] \o Quote \o << ":", " " >>

\* "<text>"
JsonString(text) == Quote \o text \o Quote

Spaces(n) == [ i \in 1..n |-> " " ]

\* the keys of a dict that are in order, in that order
KeysOf(order, keys) == SelectSeq(order, LAMBDA k : k \in keys)

\* json.dumps(phase, indent=2) of a phase nested in the table
JsonPhaseIndented(phase) ==
    IF ~ IsDict(phase) THEN << "n", "u", "l", "l" >>
    ELSE IF DOMAIN phase.dict = {} THEN << "{", "}" >>
    ELSE LET keys == KeysOf(FieldOrder, DOMAIN phase.dict)
         IN  << "{" >> \o Newline
               \o Join(<< "," >> \o Newline,
                       [ i \in 1..Len(keys) |->
                           Spaces(4) \o JsonKey(keys[i])
                             \o JsonString(phase.dict[keys[i]]) ])
               \o Newline \o Spaces(2) \o << "}" >>

\* json.dumps(bp_data, ensure_ascii=False, indent=2)
JsonTable(table) ==
    IF DOMAIN table = {} THEN << "{", "}" >>
    ELSE LET keys == KeysOf(phase_keys, DOMAIN table)
         IN  << "{" >> \o Newline
               \o Join(<< "," >> \o Newline,
                       [ i \in 1..Len(keys) |->
                           Spaces(2) \o JsonKey(keys[i])
                             \o JsonPhaseIndented(table[keys[i]]) ])
               \o Newline \o << "}" >>

\* json.dumps(phase_data, ensure_ascii=False) of a dict
JsonPhase(phase) ==
    LET keys == KeysOf(FieldOrder, DOMAIN phase.dict)
    IN  << "{" >>
          \o Join(<< ",", " " >>,
                  [ i \in 1..Len(keys) |->
                      JsonKey(keys[i]) \o JsonString(phase.dict[keys[i]]) ])
          \o << "}" >>

\* where part occurs in text
Matches(text, part) ==
    { k \in 1..(Len(text) - Len(part) + 1) :
        /\ text[k] = part[1]
        /\ SubSeq(text, k, k + Len(part) - 1) = part }

\* an occurrence that no occurrence before it overlaps: whatever was counted
\* before, the count from the left takes it
StartsRun(found, width, k) == \A j \in found : j < k => j + width <= k

\* the occurrences counted from the left, none overlapping the one before,
\* from the occurrence at from up to the next that starts a run
RECURSIVE CountFrom(_, _, _)
CountFrom(found, width, from) ==
    IF \A k \in found : k < from + width THEN 1
    ELSE Bind(CHOOSE k \in found :
                  k >= from + width /\ \A j \in found : j >= from + width => k <= j,
              LAMBDA next : IF StartsRun(found, width, next) THEN 1
                            ELSE 1 + CountFrom(found, width, next))

\* text.count(part)
str_count(text, part) ==
    IF part = << >> THEN Len(text) + 1
    ELSE Bind(Matches(text, part),
              LAMBDA found :
                  Cardinality(UNION { { k } \X (1..CountFrom(found, Len(part), k)) :
                                        k \in { j \in found : StartsRun(found, Len(part), j) } }))

str_rfind(text, part) ==
    IF part = << >> THEN Len(text)
    ELSE Bind(Matches(text, part),
              LAMBDA found : IF found = {} THEN -1
                             ELSE (CHOOSE k \in found : \A j \in found : k >= j) - 1)

\* text.find(part)
str_find(text, part) ==
    IF part = << >> THEN 0
    ELSE Bind(Matches(text, part),
              LAMBDA found : IF found = {} THEN -1
                             ELSE (CHOOSE k \in found : \A j \in found : k <= j) - 1)

Whitespace == { " ", "\n" }

\* len(text.split())
WordCount(text) ==
    Cardinality({ i \in 1..Len(text) :
                    /\ text[i] \notin Whitespace
                    /\ (i = 1 \/ text[i - 1] \in Whitespace) })

\* sum(f(x) for x in seq)
RECURSIVE SumRange(_, _, _)
SumRange(numbers, lo, hi) ==
    IF lo > hi THEN 0
    ELSE IF lo = hi THEN numbers[lo]
    ELSE SumRange(numbers, lo, (lo + hi) \div 2)
           + SumRange(numbers, ((lo + hi) \div 2) + 1, hi)

SumFrom(numbers, i) == SumRange(numbers, i, Len(numbers))

SumSeq(seq, i, F(_)) ==
    Bind([ k \in 1..Len(seq) |-> F(seq[k]) ], LAMBDA numbers : SumFrom(numbers, i))

\* the lists one after the other
Flatten(seqs) == Join(<< >>, seqs)

generic_words ==
    << << "U+5E02", "U+5834", "U+8ABF", "U+67FB" >>,
       << "U+8CC7", "U+6599", "U+4F5C", "U+6210" >>,
       << "U+30C7", "U+30FC", "U+30BF", "U+5206", "U+6790" >>,
       << "U+4F1A", "U+8B70" >>,
       << "U+30EC", "U+30DD", "U+30FC", "U+30C8", "U+4F5C", "U+6210" >>,
       << "U+60C5", "U+5831", "U+53CE", "U+96C6" >>,
       << "U+8AB2", "U+984C", "U+62BD", "U+51FA" >>,
       << "U+6539", "U+5584", "U+63D0", "U+6848" >>,
       << "U+54C1", "U+8CEA", "U+7BA1", "U+7406" >>,
       << "U+30D7", "U+30ED", "U+30B8", "U+30A7", "U+30AF", "U+30C8", "U+7BA1", "U+7406" >>,
       << "U+30C4", "U+30FC", "U+30EB" >>,
       << "U+30B7", "U+30B9", "U+30C6", "U+30E0" >>,
       << "U+30BD", "U+30D5", "U+30C8", "U+30A6", "U+30A7", "U+30A2" >>,
       << "U+88C5", "U+7F6E" >>,
       << "U+6A5F", "U+5668" >> >>

scale_stages(profile) ==
    IF profile \in ProfileNames
    THEN << << "U+30E9", "U+30DC" >>, << "U+30D1", "U+30A4", "U+30ED", "U+30C3", "U+30C8" >>, << "U+91CF", "U+7523" >> >>
    ELSE << >>

----------------------------------------------------------------------------
(* validate_job_specificity *)

\* category_weights, in tenths
category_weights ==
    [ materials_or_products      |-> 20,
      processes                  |-> 20,
      tools_and_equipment        |-> 15,
      industry_specific_kpi      |-> 15,
      constraints_or_regulations |-> 12,
      common_failures            |-> 12,
      stakeholders               |-> 10,
      deliverables               |-> 10 ]

coverage_reference_limits ==
    [ materials_or_products      |-> 10,
      processes                  |-> 10,
      tools_and_equipment        |-> 8,
      industry_specific_kpi      |-> 8,
      constraints_or_regulations |-> 8,
      common_failures            |-> 8,
      stakeholders               |-> 10,
      deliverables               |-> 8 ]

\* a multiple of every length a reference subset can have
CoverageUnit == 2520

\* the thresholds: ratios in percent, coverage in hundredths
MinSpecificRatio == 3
MaxGenericRatio == 20
MinSpecificCount == 10
MinCoverage == 50

RaciMarkers == << "R", "A", "C", "I" >>

\* the categories of the vocabulary, in the order the dict lists them
InfoKeys(info) == KeysOf(Categories, DOMAIN info)

\* the number a quotient is shown as, scale being 10 for .1f and 100 for .2f:
\* the nearest, and of two equally near the even one
Shown(num, den, scale) ==
    LET whole == (num * scale) \div den
        rest  == (num * scale) % den
    IN  IF 2 * rest > den THEN whole + 1
        ELSE IF 2 * rest = den THEN whole + (whole % 2)
        ELSE whole

\* sum(text.count(term.lower()) for term in terms)
CountAll(lowered, terms) ==
    SumSeq(terms, 1, LAMBDA term : str_count(lowered, lower(term)))

CategoryCoverageOverLimit(lowered, terms, cat) ==
    LET reference_subset == subset(terms, coverage_reference_limits[cat])
    IN  [ present |-> Cardinality({ i \in 1..Len(reference_subset) :
                                      str_count(lowered, lower(reference_subset[i])) > 0 }),
          size    |-> coverage_reference_limits[cat] ]

\* the coverage of one category: reference terms present, reference terms
CategoryCoverage(lowered, terms, cat) ==
    LET reference_subset == subset(terms, coverage_reference_limits[cat])
    IN  [ present |-> Cardinality({ i \in 1..Len(reference_subset) :
                                      str_count(lowered, lower(reference_subset[i])) > 0 }),
          size    |-> Len(reference_subset) ]

\* any(bp_text.lower().count(term.lower()) > 0 for term in reference_subset)
category_found(lowered, terms, cat) ==
    \E i \in 1..Len(subset(terms, coverage_reference_limits[cat])) :
        str_count(lowered, lower(terms[i])) > 0

\* the stages found are at offsets that never decrease
RECURSIVE ScaleOrderFrom(_, _, _, _)
ScaleOrderFrom(bp_text, stages, i, last_index) ==
    IF i > Len(stages) THEN TRUE
    ELSE Bind(str_find(bp_text, stages[i]),
              LAMBDA idx :
                  IF idx >= 0
                  THEN IF idx < last_index THEN FALSE
                       ELSE ScaleOrderFrom(bp_text, stages, i + 1, idx)
                  ELSE ScaleOrderFrom(bp_text, stages, i + 1, last_index))

\* the stakeholders fields of the dict phases, a space after each
StakeholderText(table) ==
    Flatten([ i \in 1..Len(KeysOf(phase_keys, DOMAIN table)) |->
                LET phase == table[KeysOf(phase_keys, DOMAIN table)[i]]
                IN  IF IsDict(phase) THEN FieldOf(phase, "stakeholders") \o << " " >>
                    ELSE << >> ])

\* phase_data.get('phase_name', phase_key) of the phases listed
PhaseLabels(table, keys) ==
    [ i \in 1..Len(keys) |->
        IF "phase_name" \in DOMAIN table[keys[i]].dict
        THEN table[keys[i]].dict["phase_name"]
        ELSE KeyText[keys[i]] ]

\* what is computed from the table and the vocabulary
Metrics(info, profile, table, embedding, float_low) ==
    Bind(JsonTable(table),
         LAMBDA bp_text :
      Bind(lower(bp_text),
         LAMBDA lowered :
      Bind(Flatten([ i \in 1..Len(InfoKeys(info)) |-> info[InfoKeys(info)[i]] ]),
         LAMBDA all_job_specific_terms :
      Bind([ cat \in { c \in DOMAIN info : info[c] # << >> } |->
               CategoryCoverage(lowered, info[cat], cat) ],
         LAMBDA coverage :
      Bind(StakeholderText(table),
         LAMBDA stakeholder_text :
             [ job_specific_count |-> CountAll(lowered, all_job_specific_terms),
               generic_count      |-> CountAll(lowered, generic_words),
               total_words        |-> WordCount(bp_text),
               embedding          |-> embedding,
               coverage           |-> coverage,
               weighted_sum       |->
                   SumSeq(InfoKeys(info), 1,
                          LAMBDA cat :
                              IF info[cat] = << >> THEN 0
                              ELSE coverage[cat].present * category_weights[cat]
                                     * (CoverageUnit \div coverage[cat].size)),
               weight_total       |->
                   SumSeq(InfoKeys(info), 1,
                          LAMBDA cat : IF info[cat] = << >> THEN 0
                                       ELSE category_weights[cat]),
               float_low          |-> float_low,
               scale_order_ok     |->
                   ScaleOrderFrom(bp_text, scale_stages(profile), 1, -1),
               raci_flags         |->
                   [ i \in 1..Len(RaciMarkers) |->
                       Contains(stakeholder_text, << RaciMarkers[i] >>) ],
               phases_without_specificity |->
                   PhaseLabels(table,
                       SelectSeq(KeysOf(phase_keys, DOMAIN table),
                                 LAMBDA pk :
                                     /\ IsDict(table[pk])
                                     /\ CountAll(lower(JsonPhase(table[pk])),
                                                 all_job_specific_terms) = 0)),
               missing_categories |->
                   SelectSeq(InfoKeys(info),
                             LAMBDA cat : ~ category_found(lowered, info[cat], cat)) ])))))

\* max(total_words, 1)
WordsOf(m) == IF m.total_words > 1 THEN m.total_words ELSE 1

\* metrics["job_specific_ratio"] < 3.0
SpecificRatioTooLow(m) == m.job_specific_count * 100 < MinSpecificRatio * WordsOf(m)

GenericRatioTooHighOrEqual(m) == m.generic_count * 100 >= MaxGenericRatio * WordsOf(m)

\* metrics["generic_ratio"] > 20.0
GenericRatioTooHigh(m) == m.generic_count * 100 > MaxGenericRatio * WordsOf(m)

SpecificCountTooLowOrEqual(m) == m.job_specific_count <= MinSpecificCount

\* job_specific_count < 10
SpecificCountTooLow(m) == m.job_specific_count < MinSpecificCount

\* metrics.get('weighted_coverage', 0) < 0.5, the quotient being the one
\* floating-point division gives: it can fall short of the exact quotient
CoverageTooLow(m) ==
    \/ m.weighted_sum * 100 < MinCoverage * CoverageUnit * m.weight_total
    \/ m.weight_total = 0
    \/ /\ m.weighted_sum * 100 = MinCoverage * CoverageUnit * m.weight_total
       /\ m.float_low

\* scale_stages and not scale_order_ok
ScaleOrderBroken(m, profile) == scale_stages(profile) # << >> /\ ~ m.scale_order_ok

\* not all(raci_flags.values())
RaciIncomplete(m) == \E i \in 1..Len(RaciMarkers) : ~ m.raci_flags[i]

\* metrics['embedding_specificity_score'] < 0
EmbeddingTooGeneric(m) == m.embedding = "negative"

\* the number shown for the weighted coverage, in hundredths
ShownCoverage(m) ==
    IF m.weight_total = 0 THEN 0
    ELSE Shown(m.weighted_sum, CoverageUnit * m.weight_total, 100)

ErrorIf(failing, error) == IF failing THEN << error >> ELSE << >>

StoppedAtFirstError(parts) ==
    IF \A i \in 1..Len(parts) : parts[i] = << >> THEN << >>
    ELSE parts[CHOOSE i \in 1..Len(parts) :
                 parts[i] # << >> /\ \A j \in 1..(i - 1) : parts[j] = << >>]

\* errors.append(...) of every failing check, in the order of the checks
AllErrors(parts) == Flatten(parts)

\* the errors of the checks that fail, in the order the checks are made
Errors(m, profile) ==
    AllErrors(<<
        ErrorIf(EmbeddingTooGeneric(m), [ check |-> "embedding" ]),
        ErrorIf(SpecificRatioTooLow(m),
                [ check |-> "job_specific_ratio",
                  value |-> Shown(m.job_specific_count * 100, WordsOf(m), 10),
                  threshold |-> MinSpecificRatio * 10 ]),
        ErrorIf(GenericRatioTooHigh(m),
                [ check |-> "generic_ratio",
                  value |-> Shown(m.generic_count * 100, WordsOf(m), 10),
                  threshold |-> MaxGenericRatio * 10 ]),
        ErrorIf(SpecificCountTooLow(m),
                [ check |-> "job_specific_count",
                  value |-> m.job_specific_count,
                  threshold |-> MinSpecificCount ]),
        ErrorIf(CoverageTooLow(m),
                [ check |-> "weighted_coverage",
                  value |-> ShownCoverage(m),
                  threshold |-> MinCoverage ]),
        ErrorIf(ScaleOrderBroken(m, profile), [ check |-> "scale_order" ]),
        ErrorIf(RaciIncomplete(m),
                [ check |-> "raci",
                  missing |-> SelectSeq([ i \in 1..Len(RaciMarkers) |-> i ],
                                        LAMBDA i : ~ m.raci_flags[i]) ]),
        ErrorIf(m.phases_without_specificity # << >>,
                [ check |-> "phases_without_specificity",
                  missing |-> m.phases_without_specificity ]),
        ErrorIf(m.missing_categories # << >>,
                [ check |-> "missing_categories",
                  missing |-> m.missing_categories ]) >>)

NoMetrics == [ x \in {} |-> 0 ]

\* (is_valid, errors, metrics)
validate_job_specificity(info, profile, table, embedding, float_low) ==
    IF DOMAIN info = {} \/ DOMAIN table = {}
    THEN [ is_valid |-> FALSE,
           errors   |-> << [ check |-> "insufficient" ] >>,
           metrics  |-> NoMetrics ]
    ELSE Bind(Metrics(info, profile, table, embedding, float_low),
              LAMBDA m :
                  Bind(Errors(m, profile),
                       LAMBDA errors : [ is_valid |-> errors = << >>,
                                         errors   |-> errors,
                                         metrics  |-> m ]))
----------------------------------------------------------------------------
(* filter_category_items and _filter_abstract_items.  A pattern is the
   characters it spells and the class of the character that has to follow. *)

EXCLUSION_PATTERNS ==
    << [ lit |-> << "U+682A", "U+5F0F", "U+4F1A", "U+793E" >>, then |-> "none" ],
       [ lit |-> << "U+6709", "U+9650", "U+4F1A", "U+793E" >>, then |-> "none" ],
       [ lit |-> << "U+5408", "U+540C", "U+4F1A", "U+793E" >>, then |-> "none" ],
       [ lit |-> << "U+4E00", "U+822C", "U+793E", "U+56E3", "U+6CD5", "U+4EBA" >>, then |-> "none" ],
       [ lit |-> << "U+4E00", "U+822C", "U+8CA1", "U+56E3", "U+6CD5", "U+4EBA" >>, then |-> "none" ],
       [ lit |-> << "U+56FD", "U+7ACB", "U+7814", "U+7A76", "U+958B", "U+767A", "U+6CD5", "U+4EBA" >>, then |-> "none" ],
       [ lit |-> << "U+72EC", "U+7ACB", "U+884C", "U+653F", "U+6CD5", "U+4EBA" >>, then |-> "none" ],
       [ lit |-> << "U+5927", "U+5B66" >>, then |-> "none" ],
       [ lit |-> << "U+7814", "U+7A76", "U+6240" >>, then |-> "none" ],
       [ lit |-> << "U+30BB", "U+30F3", "U+30BF", "U+30FC" >>, then |-> "none" ],
       [ lit |-> << "U+5354", "U+4F1A" >>, then |-> "none" ],
       [ lit |-> << "U+5B66", "U+4F1A" >>, then |-> "none" ],
       [ lit |-> << "U+9023", "U+76DF" >>, then |-> "none" ],
       [ lit |-> << "U+7D44", "U+5408" >>, then |-> "none" ],
       [ lit |-> << "U+7701" >>, then |-> "none" ],
       [ lit |-> << "U+5E81" >>, then |-> "none" ],
       [ lit |-> << "U+59D4", "U+54E1", "U+4F1A" >>, then |-> "none" ],
       [ lit |-> << "I", "n", "c" >>, then |-> "none" ],
       [ lit |-> << "C", "o", "r", "p" >>, then |-> "none" ],
       [ lit |-> << "L", "t", "d" >>, then |-> "none" ],
       [ lit |-> << "L", "L", "C" >>, then |-> "none" ],
       [ lit |-> << "C", "o", "." >>, then |-> "none" ],
       [ lit |-> << "U", "n", "i", "v", "e", "r", "s", "i", "t", "y" >>, then |-> "none" ],
       [ lit |-> << "I", "n", "s", "t", "i", "t", "u", "t", "e" >>, then |-> "none" ],
       [ lit |-> << "A", "s", "s", "o", "c", "i", "a", "t", "i", "o", "n" >>, then |-> "none" ],
       [ lit |-> << "S", "o", "c", "i", "e", "t", "y" >>, then |-> "none" ] >>

ALLOWED_ROLE_PATTERNS ==
    << [ lit |-> << "O", "E", "M" >>, then |-> "none" ],
       [ lit |-> << "U+54C1", "U+8CEA", "U+4FDD", "U+8A3C" >>, then |-> "none" ],
       [ lit |-> << "U+88FD", "U+9020", "U+6280", "U+8853" >>, then |-> "none" ],
       [ lit |-> << "U+958B", "U+767A", "U+90E8", "U+9580" >>, then |-> "none" ],
       [ lit |-> << "U+30A8", "U+30F3", "U+30B8", "U+30CB", "U+30A2" >>, then |-> "none" ],
       [ lit |-> << "U+62C5", "U+5F53" >>, then |-> "none" ],
       [ lit |-> << "U+90E8", "U+9580" >>, then |-> "none" ],
       [ lit |-> << "U+30C1", "U+30FC", "U+30E0" >>, then |-> "none" ] >>

ALLOWED_CATEGORY_PATTERNS ==
    [ materials_or_products |->
          << [ lit |-> << "N", "C", "M" >>, then |-> "digit" ],
             [ lit |-> << "L", "F", "P" >>, then |-> "none" ],
             [ lit |-> << "N", "C", "A" >>, then |-> "none" ],
             [ lit |-> << "L", "i", "P", "F", "6" >>, then |-> "none" ],
             [ lit |-> << "L", "i" >>, then |-> "alnum" ],
             [ lit |-> << "U+30BB", "U+30D1", "U+30EC", "U+30FC", "U+30BF" >>, then |-> "none" ],
             [ lit |-> << "U+30D0", "U+30A4", "U+30F3", "U+30C0", "U+30FC" >>, then |-> "none" ],
             [ lit |-> << "U+30B9", "U+30E9", "U+30EA", "U+30FC" >>, then |-> "none" ],
             [ lit |-> << "U+713C", "U+7D50" >>, then |-> "none" ],
             [ lit |-> << "U+6DF7", "U+7DF4" >>, then |-> "none" ] >>,
      tools_and_equipment |->
          << [ lit |-> << "X", "R", "D" >>, then |-> "none" ],
             [ lit |-> << "S", "E", "M" >>, then |-> "none" ],
             [ lit |-> << "E", "D", "S" >>, then |-> "none" ],
             [ lit |-> << "A", "F", "M" >>, then |-> "none" ],
             [ lit |-> << "V", "S", "M" >>, then |-> "none" ],
             [ lit |-> << "J", "M", "P" >>, then |-> "none" ],
             [ lit |-> << "M", "i", "n", "i", "t", "a", "b" >>, then |-> "none" ],
             [ lit |-> << "C", "A", "D" >>, then |-> "none" ],
             [ lit |-> << "C", "A", "E" >>, then |-> "none" ],
             [ lit |-> << "F", "E", "A" >>, then |-> "none" ],
             [ lit |-> << "L", "C", "R" >>, then |-> "none" ] >>,
      processes |->
          << [ lit |-> << "U+6DF7", "U+7DF4" >>, then |-> "none" ],
             [ lit |-> << "U+30B9", "U+30E9", "U+30EA", "U+30FC" >>, then |-> "none" ],
             [ lit |-> << "U+5857", "U+5DE5" >>, then |-> "none" ],
             [ lit |-> << "U+4E7E", "U+71E5" >>, then |-> "none" ],
             [ lit |-> << "U+713C", "U+7D50" >>, then |-> "none" ],
             [ lit |-> << "D", "O", "E" >>, then |-> "none" ],
             [ lit |-> << "U+30D5", "U+30A9", "U+30FC", "U+30E1", "U+30FC", "U+30B7", "U+30E7", "U+30F3" >>, then |-> "none" ],
             [ lit |-> << "U+5316", "U+6210" >>, then |-> "none" ] >>,
      industry_specific_kpi |->
          << [ lit |-> << "U+30A8", "U+30CD", "U+30EB", "U+30AE", "U+30FC", "U+5BC6", "U+5EA6" >>, then |-> "none" ],
             [ lit |-> << "U+30B5", "U+30A4", "U+30AF", "U+30EB", "U+5BFF", "U+547D" >>, then |-> "none" ],
             [ lit |-> << "U+5185", "U+90E8", "U+62B5", "U+6297" >>, then |-> "none" ],
             [ lit |-> << "W", "h", "/", "k", "g" >>, then |-> "none" ],
             [ lit |-> << "A", "h" >>, then |-> "none" ],
             [ lit |-> << "U+6B69", "U+7559", "U+307E", "U+308A" >>, then |-> "none" ] >>,
      constraints_or_regulations |->
          << [ lit |-> << "U", "N", "3", "8", ".", "3" >>, then |-> "none" ],
             [ lit |-> << "I", "E", "C" >>, then |-> "digit" ],
             [ lit |-> << "A", "E", "C", "-", "Q" >>, then |-> "digit" ],
             [ lit |-> << "R", "o", "H", "S" >>, then |-> "none" ],
             [ lit |-> << "R", "E", "A", "C", "H" >>, then |-> "none" ],
             [ lit |-> << "J", "I", "S" >>, then |-> "none" ],
             [ lit |-> << "I", "S", "O" >>, then |-> "none" ],
             [ lit |-> << "U+898F", "U+683C" >>, then |-> "none" ] >>,
      common_failures |->
          << [ lit |-> << "U+52A3", "U+5316" >>, then |-> "none" ],
             [ lit |-> << "U+81A8", "U+5F35" >>, then |-> "none" ],
             [ lit |-> << "U+77ED", "U+7D61" >>, then |-> "none" ],
             [ lit |-> << "U+71B1", "U+66B4", "U+8D70" >>, then |-> "none" ],
             [ lit |-> << "S", "E", "I" >>, then |-> "none" ],
             [ lit |-> << "U+30C7", "U+30F3", "U+30C9", "U+30E9", "U+30A4", "U+30C8" >>, then |-> "none" ],
             [ lit |-> << "U+30AC", "U+30B9" >>, then |-> "none" ] >>,
      stakeholders |->
          << [ lit |-> << "O", "E", "M" >>, then |-> "none" ],
             [ lit |-> << "U+54C1", "U+8CEA", "U+4FDD", "U+8A3C" >>, then |-> "none" ],
             [ lit |-> << "U+88FD", "U+9020", "U+6280", "U+8853" >>, then |-> "none" ],
             [ lit |-> << "U+958B", "U+767A", "U+90E8", "U+9580" >>, then |-> "none" ],
             [ lit |-> << "U+30D7", "U+30ED", "U+30BB", "U+30B9", "U+30A8", "U+30F3", "U+30B8", "U+30CB", "U+30A2" >>, then |-> "none" ],
             [ lit |-> << "U+6CD5", "U+52D9" >>, then |-> "none" ],
             [ lit |-> << "U+74B0", "U+5883", "U+5B89", "U+5168" >>, then |-> "none" ] >>,
      deliverables |->
          << [ lit |-> << "U+4ED5", "U+69D8", "U+66F8" >>, then |-> "none" ],
             [ lit |-> << "U+8A08", "U+753B", "U+66F8" >>, then |-> "none" ],
             [ lit |-> << "U+30EC", "U+30DD", "U+30FC", "U+30C8" >>, then |-> "none" ],
             [ lit |-> << "U+8981", "U+4EF6", "U+4ED5", "U+69D8" >>, then |-> "none" ],
             [ lit |-> << "U+8A55", "U+4FA1", "U+30EC", "U+30DD", "U+30FC", "U+30C8" >>, then |-> "none" ],
             [ lit |-> << "U+8A66", "U+9A13", "U+30EC", "U+30DD", "U+30FC", "U+30C8" >>, then |-> "none" ] >> ]

abstract_tokens ==
    { << "U+6750", "U+6599" >>,
      << "U+30C4", "U+30FC", "U+30EB" >>,
      << "U+88C5", "U+7F6E" >>,
      << "U+30B7", "U+30B9", "U+30C6", "U+30E0" >>,
      << "U+5DE5", "U+7A0B" >>,
      << "U+624B", "U+6CD5" >>,
      << "U+65B9", "U+6CD5" >>,
      << "U+6E2C", "U+5B9A" >>,
      << "U+8A55", "U+4FA1" >> }

Digit == { Digits[i] : i \in 1..Len(Digits) } \cup { "0" }
UpperLetter == { UpperCase[i] : i \in 1..Len(UpperCase) }
AsciiLetter == UpperLetter \cup { LowerCase[i] : i \in 1..Len(LowerCase) }

\* the characters that are neither letters nor digits
Punctuation == { " ", ".", "/", "-", ",", ":", "\"", "\n", "{", "}" }

\* a character of a token: [\w...]
IsWordChar(ch) == ch \notin Punctuation

InClass(ch, class) ==
    CASE class = "digit" -> ch \in Digit
      [] class = "alnum" -> ch \in Digit \cup AsciiLetter
      [] OTHER           -> TRUE

\* re.search(pattern, text)
re_search(pattern, text) ==
    \E k \in 1..(Len(text) - Len(pattern.lit) + 1) :
        /\ SubSeq(text, k, k + Len(pattern.lit) - 1) = pattern.lit
        /\ pattern.then # "none" =>
               /\ k + Len(pattern.lit) <= Len(text)
               /\ InClass(text[k + Len(pattern.lit)], pattern.then)

\* any(re.search(pat, it) for pat in patterns)
MatchesAny(patterns, it) == \E i \in 1..Len(patterns) : re_search(patterns[i], it)

\* ALLOWED_CATEGORY_PATTERNS.get(category, [])
AllowedPatterns(category) ==
    IF category \in DOMAIN ALLOWED_CATEGORY_PATTERNS
    THEN ALLOWED_CATEGORY_PATTERNS[category]
    ELSE << >>

NeverExcluded(it) == FALSE

\* the item matches a pattern of an organization
Excluded(it) == MatchesAny(EXCLUSION_PATTERNS, it)

RoleOfWholeItem(it) ==
    IF MatchesAny(ALLOWED_ROLE_PATTERNS, it) THEN << it >> ELSE << >>

\* next((p for p in ALLOWED_ROLE_PATTERNS if re.search(p, it)), None), in a list
RoleOf(it) ==
    IF MatchesAny(ALLOWED_ROLE_PATTERNS, it)
    THEN << ALLOWED_ROLE_PATTERNS[
               CHOOSE i \in 1..Len(ALLOWED_ROLE_PATTERNS) :
                   /\ re_search(ALLOWED_ROLE_PATTERNS[i], it)
                   /\ \A j \in 1..(i - 1) : ~ re_search(ALLOWED_ROLE_PATTERNS[j], it)].lit >>
    ELSE << >>

MinItemLength == 2

\* what one item adds to the filtered list
FilteredItem(category, it) ==
    IF Excluded(it)
    THEN IF category = "stakeholders" THEN RoleOf(it) ELSE << >>
    ELSE IF AllowedPatterns(category) # << >> /\ ~ MatchesAny(AllowedPatterns(category), it)
    THEN << >>
    ELSE IF Len(it) < MinItemLength THEN << >>
    ELSE << it >>

filter_category_items(category, items) ==
    Flatten([ i \in 1..Len(items) |-> FilteredItem(category, items[i]) ])

\* re.findall(r'[\w...]+', it): the longest runs of token characters
Tokens(it) ==
    { SubSeq(it, a, b) : a \in 1..Len(it), b \in 1..Len(it) } \cap
    { SubSeq(it, a, b) : << a, b >> \in
        { ab \in (1..Len(it)) \X (1..Len(it)) :
            /\ ab[1] <= ab[2]
            /\ \A k \in ab[1]..ab[2] : IsWordChar(it[k])
            /\ (ab[1] = 1 \/ ~ IsWordChar(it[ab[1] - 1]))
            /\ (ab[2] = Len(it) \/ ~ IsWordChar(it[ab[2] + 1])) } }

\* re.search(r'[A-Z]{2,}|\d+[A-Za-z]+|[A-Za-z]+\d+', it)
has_specific_pattern(it) ==
    \E k \in 1..(Len(it) - 1) :
        \/ it[k] \in UpperLetter /\ it[k + 1] \in UpperLetter
        \/ it[k] \in Digit /\ it[k + 1] \in AsciiLetter
        \/ it[k] \in AsciiLetter /\ it[k + 1] \in Digit

\* the item is kept by the abstract-token filter
IsConcrete(it) == ~ (Tokens(it) \subseteq abstract_tokens) \/ has_specific_pattern(it)

\* the list of one category after _filter_abstract_items
filter_abstract_items(items) == SelectSeq(items, IsConcrete)

\* the two filters, one after the other, on the list of one category
TwoStageFilter(category, items) ==
    filter_abstract_items(filter_category_items(category, items))

FilterOnce ==
    /\ filtering.step = 0
    /\ filtering' = [ filtering EXCEPT
                        !.step = 1,
                        !.filtered = filter_category_items(filtering.category, filtering.raw),
                        !.once = TwoStageFilter(filtering.category, filtering.raw) ]
    /\ UNCHANGED << alloc_vars, enforce_vars, validate_vars, ui_vars >>

FilterAgain ==
    /\ filtering.step = 1
    /\ filtering' = [ filtering EXCEPT
                        !.step = 2,
                        !.twice = TwoStageFilter(filtering.category, filtering.once) ]
    /\ UNCHANGED << alloc_vars, enforce_vars, validate_vars, ui_vars >>

Unfiltered(category, raw) ==
    [ category |-> category, raw |-> raw, step |-> 0,
      filtered |-> << >>, once |-> << >>, twice |-> << >> ]

FilterIdle == filtering = Unfiltered("stakeholders", << >>)

----------------------------------------------------------------------------
(* Vocabularies *)

NoInfo == [ c \in {} |-> << >> ]

NotValidated == [ done |-> FALSE ]

Validate ==
    /\ ~ validation.done
    /\ validation' =
           [ done |-> TRUE,
             out  |-> validate_job_specificity(validator_in.info, validator_in.profile,
                                               validator_in.bp_data,
                                               validator_in.embedding,
                                               validator_in.float_low) ]
    /\ UNCHANGED << validator_in, alloc_vars, enforce_vars, filter_vars, ui_vars >>

ValidateIdle ==
    /\ validator_in = [ info |-> NoInfo, profile |-> "none", bp_data |-> EmptyTable,
                        embedding |-> "no_client", float_low |-> FALSE ]
    /\ validation = NotValidated

\* st.session_state with nothing generated: job_info and bp_data are {}, and
\* the validation keys, not yet set, read as their defaults
NoSession(openai, serpapi) ==
    [ openai_api_key      |-> openai,
      serpapi_key         |-> serpapi,
      job_info            |-> NoInfo,
      bp_data             |-> EmptyTable,
      validation_metrics  |-> NoMetrics,
      validation_is_valid |-> FALSE,
      validation_errors   |-> << >> ]

NothingClicked == [ button |-> "none", validated |-> << >> ]

SessionIdle ==
    /\ session_state = NoSession(FALSE, FALSE)
    /\ last_click = NothingClicked

\* LongLen terms: "NCM811" everywhere, but "XRD" at positions 9 and LongLen
LongList == [ i \in 1..LongLen |-> IF i = 9 \/ i = LongLen THEN "XRD" ELSE "NCM811" ]

CrossVocabularies == [ CategorySet -> { << >>, << "NCM811" >>, << "XRD", "NCM811" >> } ]

LongVocabularies ==
    { [ c \in CategorySet |-> IF c = d THEN LongList ELSE rest ] :
        d \in CategorySet, rest \in { << >>, << "XRD" >> } }

\* vocabularies that lack categories altogether
SparseVocabularies ==
    { [ c \in S |-> << "XRD", "NCM811" >> ] : S \in (SUBSET CategorySet) \ {{}} }

Vocabularies == CrossVocabularies \cup LongVocabularies \cup SparseVocabularies

AllocInitCommon ==
    /\ assignments = [ s \in Sessions |-> EmptyAssignments ]
    /\ prev_assignments = [ s \in Sessions |-> EmptyAssignments ]
    /\ usage_count = EmptyUsage
    /\ total_placed = [ s \in Sessions |-> EmptyUsage ]
    /\ calls = [ s \in Sessions |-> 0 ]
    /\ EnforceIdle
    /\ ValidateIdle
    /\ FilterIdle
    /\ SessionIdle

\* one session, one allocation pass, every vocabulary
AllocInit ==
    /\ profile_name = [ s \in Sessions |-> "ev_materials" ]
    /\ \E v \in Vocabularies :
         job_specific_info = [ s \in Sessions |-> IF s = "s1" THEN v ELSE NoInfo ]
    /\ AllocInitCommon

AllocNext == \E s \in Sessions : calls[s] < 1 /\ Generate(s)

SpecAlloc == AllocInit /\ [][AllocNext]_vars

----------------------------------------------------------------------------
(* Two sessions, each with its own profile and vocabulary, allocating again *)
(* and again in any interleaving                                            *)

\* the first k categories list "NCM811" and "XRD", the others nothing
PrefixVocabulary(k) ==
    [ c \in CategorySet |->
        IF \E i \in 1..k : Categories[i] = c THEN << "NCM811", "XRD" >> ELSE << >> ]

SessionVocabularies == { PrefixVocabulary(k) : k \in {1, 2, 4, 6} }

SessInit ==
    /\ profile_name \in [ Sessions -> ProfileNames ]
    /\ job_specific_info \in [ Sessions -> SessionVocabularies ]
    /\ AllocInitCommon

SessNext == \E s \in Sessions : calls[s] < MaxCalls /\ Generate(s)

SpecSessions == SessInit /\ [][SessNext]_vars

----------------------------------------------------------------------------
(* The enforcer, run again and again on the table it returned *)

AllocIdle ==
    /\ profile_name = [ s \in Sessions |-> "ev_materials" ]
    /\ job_specific_info = [ s \in Sessions |-> NoInfo ]
    /\ assignments = [ s \in Sessions |-> EmptyAssignments ]
    /\ prev_assignments = [ s \in Sessions |-> EmptyAssignments ]
    /\ usage_count = EmptyUsage
    /\ total_placed = [ s \in Sessions |-> EmptyUsage ]
    /\ calls = [ s \in Sessions |-> 0 ]

EnforceInit ==
    /\ AllocIdle
    /\ bp_data \in Tables
    /\ enforcer_rep \in EnforcerReps
    /\ returned = EmptyTable
    /\ bp_before = EmptyTable
    /\ rep_before = UniformRep(0)
    /\ usage_seen = NothingSeen
    /\ usage_after = NoUsage
    /\ runs = 0
    /\ ValidateIdle
    /\ FilterIdle
    /\ SessionIdle

EnforceNext == runs < MaxRuns /\ Enforce

SpecEnforce == EnforceInit /\ [][EnforceNext]_vars

----------------------------------------------------------------------------
(* The enforcer on tables that lack fields, phases or records, and on *)
(* vocabularies that list a term twice                                 *)

\* the record without the field
Lacking(record, f) == [ g \in DOMAIN record \ { f } |-> record[g] ]

\* the table without the phase
WithoutPhase(table, pk) == [ qk \in DOMAIN table \ { pk } |-> table[qk] ]

\* a key of the table that is no phase key, and a phase key past the seventh
OtherKeys == { "summary", "phase_8" }

IncompletePhases == { "phase_1", "phase_4", "phase_7" }

BaseRecords == { RecordWith({}), RecordWith(CheckedFieldSet) }

\* a table with passing and failing fields, an entry that is no record and a
\* key that is no phase
MixedTable ==
    [ TableOf(RecordWith({}), "phase_1", RecordWith({ "kpi", "tools" }))
        EXCEPT !["phase_4"] = NotADict ] @@ ("summary" :> NotADict)

IncompleteTables ==
    { MixedTable } \cup
    { TableOf(base, pk0, Lacking(base, f)) :
        base \in BaseRecords, pk0 \in IncompletePhases, f \in Fields }
      \cup { WithoutPhase(TableOf(base, pk0, base), pk0) :
               base \in BaseRecords, pk0 \in IncompletePhases }
      \cup { [ TableOf(base, pk0, base) EXCEPT ![pk0] = NotADict ] :
               base \in BaseRecords, pk0 \in IncompletePhases }
      \cup { TableOf(base, "phase_1", base) @@ (key :> entry) :
               base \in BaseRecords, key \in OtherKeys,
               entry \in { NotADict, Dict(RecordWith({})) } }

\* one term in every category, listed twice in one of them
DoubledRep(c0) ==
    [ UniformRep(1) EXCEPT ![c0] = << Term(Letter[c0], 1), Term(Letter[c0], 1) >> ]

IncompleteReps ==
    { UniformRep(n) : n \in 0..2 }
      \cup { DoubledRep(c) : c \in { "tools_and_equipment", "deliverables",
                                     "industry_specific_kpi", "common_failures" } }
      \cup { SharedRep }

IncompleteInit ==
    /\ AllocIdle
    /\ bp_data \in IncompleteTables
    /\ enforcer_rep \in IncompleteReps
    /\ returned = EmptyTable
    /\ bp_before = EmptyTable
    /\ rep_before = UniformRep(0)
    /\ usage_seen = NothingSeen
    /\ usage_after = NoUsage
    /\ runs = 0
    /\ ValidateIdle
    /\ FilterIdle
    /\ SessionIdle

SpecIncomplete == IncompleteInit /\ [][EnforceNext]_vars

----------------------------------------------------------------------------
(* The validator, on tables that differ from a passing one in up to two ways *)

M1 == Term("M", 1)
M2 == Term("M", 2)
P1 == Term("P", 1)
P2 == Term("P", 2)
P3 == Term("P", 3)

\* the first n terms of ts, ts, ts, ...
Cycle(ts, n) == [ i \in 1..n |-> ts[((i - 1) % Len(ts)) + 1] ]

\* the words with a space between them
Words(ws) == Join(<< " " >>, ws)

InfoAB == [ materials_or_products |-> << M1, M2 >>, processes |-> << P1, P2, P3 >> ]

InfoAB5 == [ materials_or_products |-> << M1, M2 >>, processes |-> TermList("P", 5) ]

InfoD == [ materials_or_products |-> << M1, M2 >>, processes |-> << P1, P2 >> ]

InfoC ==
    [ common_failures |-> TermList("F", 2),
      stakeholders    |-> TermList("S", 3),
      deliverables    |-> TermList("D", 3) ]

\* more tools than the reference limit of the category, and three processes
InfoT == [ tools_and_equipment |-> TermList("T", 9), processes |-> << P1, P2, P3 >> ]

\* a category left with no term
InfoE ==
    [ materials_or_products |-> << M1, M2 >>, processes |-> << P1, P2, P3 >>,
      stakeholders |-> << >> ]

\* a vocabulary, the terms of the activities field, and whether the
\* floating-point quotient of the weighted coverage falls short of the exact one
VocabularyCases ==
    << [ info |-> InfoAB, words |-> << M1, P1, M2, P2 >> \o Cycle(<< M1, P1 >>, 6),
         float_low |-> FALSE ],
       [ info |-> InfoAB, words |-> << M1, P1, M2, P2 >> \o Cycle(<< M1, P1 >>, 5),
         float_low |-> FALSE ],
       [ info |-> InfoAB, words |-> << M1, P1, M2, P2 >> \o Cycle(<< M1, P1 >>, 4),
         float_low |-> FALSE ],
       [ info |-> InfoAB, words |-> Cycle(<< M1, P1 >>, 10), float_low |-> FALSE ],
       [ info |-> InfoAB5, words |-> Cycle(<< M1, P1, P2, P3 >>, 10),
         float_low |-> FALSE ],
       [ info |-> InfoC,
         words |-> Cycle(<< Term("F", 1), Term("S", 1), Term("S", 2), Term("D", 1) >>, 10),
         float_low |-> TRUE ],
       [ info |-> InfoD, words |-> Cycle(<< M1, P1 >>, 10), float_low |-> FALSE ],
       [ info |-> InfoAB, words |-> << GenericText >>, float_low |-> FALSE ],
       [ info |-> UniformRep(1), words |-> Cycle(<< M1, P1 >>, 10), float_low |-> FALSE ],
       [ info |-> InfoAB, words |-> << M1, P1, M2 >>, float_low |-> FALSE ],
       [ info |-> InfoAB,
         words |-> << lower(M1), lower(P1), M2, P2 >> \o Cycle(<< M1, P1 >>, 6),
         float_low |-> FALSE ],
       [ info |-> NoInfo, words |-> << GenericText >>, float_low |-> FALSE ],
       [ info |-> InfoT, words |-> Cycle(<< Term("T", 9), P1 >>, 10),
         float_low |-> FALSE ],
       [ info |-> InfoE, words |-> << M1, P1, M2, P2 >> \o Cycle(<< M1, P1 >>, 6),
         float_low |-> FALSE ] >>

ToolsCounts == { 0, 5, 6 }
FillerCounts == { 2, 84 }
RaciTexts == { << "R", "A", "C", "I" >>, << "R", "A" >>, GenericText }
SecondPhases == { "none", "with_term", "without_term", "not_dict" }
ScaleTexts == { "none", "ordered", "reversed", "repeated" }
ValidatorProfiles == { "ev_materials", "none" }
EmbeddingOutcomes == { "no_client", "exception", "negative", "non_negative" }

Scenarios ==
    [ case : 1..Len(VocabularyCases), tools : ToolsCounts, filler : FillerCounts,
      raci : RaciTexts, second : SecondPhases, scale : ScaleTexts,
      profile : ValidatorProfiles, embedding : EmbeddingOutcomes ]

GoodScenario ==
    [ case |-> 1, tools |-> 0, filler |-> 2, raci |-> << "R", "A", "C", "I" >>,
      second |-> "none", scale |-> "none", profile |-> "ev_materials",
      embedding |-> "non_negative" ]

\* in how many ways a scenario differs from the passing one
Differences(sc) ==
    Cardinality({ k \in DOMAIN GoodScenario : sc[k] # GoodScenario[k] })

MaxDifferences == 2

\* the tools field: n times a generic word, or a word that is none
ToolsOf(n) ==
    IF n = 0 THEN GenericText ELSE Flatten([ i \in 1..n |-> generic_words[4] ])

\* the inputs field: stages of the profile, then filler words
InputsOf(scale, n) ==
    Words((CASE scale = "ordered"  -> << scale_stages("ev_materials")[1],
                                         scale_stages("ev_materials")[3] >>
             [] scale = "reversed" -> << scale_stages("ev_materials")[3],
                                         scale_stages("ev_materials")[1] >>
             [] scale = "repeated" -> << scale_stages("ev_materials")[3],
                                         scale_stages("ev_materials")[1],
                                         scale_stages("ev_materials")[3] >>
             [] OTHER              -> << >>)
          \o [ i \in 1..n |-> GenericText ])

FirstPhase(sc) ==
    Dict([ phase_name   |-> GenericText,
           activities   |-> Words(VocabularyCases[sc.case].words),
           inputs       |-> InputsOf(sc.scale, sc.filler),
           tools        |-> ToolsOf(sc.tools),
           stakeholders |-> sc.raci ])

SecondPhase(sc) ==
    CASE sc.second = "with_term" ->
             Dict([ activities |-> VocabularyCases[sc.case].words[1],
                    stakeholders |-> GenericText ])
      [] sc.second = "without_term" ->
             Dict([ phase_name |-> GenericText, activities |-> GenericText ])
      [] OTHER -> NotADict

ScenarioTable(sc) ==
    IF sc.second = "none" THEN ("phase_1" :> FirstPhase(sc))
    ELSE ("phase_1" :> FirstPhase(sc)) @@ ("phase_2" :> SecondPhase(sc))

ScenarioInput(sc) ==
    [ info      |-> VocabularyCases[sc.case].info,
      profile   |-> sc.profile,
      bp_data   |-> ScenarioTable(sc),
      embedding |-> sc.embedding,
      float_low |-> VocabularyCases[sc.case].float_low ]

ValidatorInputs ==
    { ScenarioInput(sc) : sc \in { x \in Scenarios : Differences(x) <= MaxDifferences } }
      \cup { [ ScenarioInput(GoodScenario) EXCEPT !.bp_data = EmptyTable ] }

ValidateInit ==
    /\ AllocIdle
    /\ EnforceIdle
    /\ validator_in \in ValidatorInputs
    /\ validation = NotValidated
    /\ FilterIdle
    /\ SessionIdle

ValidateNext == Validate

SpecValidate == ValidateInit /\ [][ValidateNext]_vars

----------------------------------------------------------------------------
(* The filters, on raw lists of up to MaxRaw items *)

MaxRaw == 2

Company == EXCLUSION_PATTERNS[1].lit
College == EXCLUSION_PATTERNS[8].lit
Institute == EXCLUSION_PATTERNS[9].lit

RawItems ==
    { Company \o << "A" >>,
      College \o << " " >> \o ALLOWED_ROLE_PATTERNS[5].lit,
      Company \o << " " >> \o ALLOWED_ROLE_PATTERNS[2].lit,
      EXCLUSION_PATTERNS[7].lit \o << " " >> \o ALLOWED_ROLE_PATTERNS[4].lit,
      << "X", "R", "D" >> \o Institute,
      << "A", "C", "M", "E", " ", "I", "n", "c", "." >>,
      << "N", "C", "M", "8", "1", "1" >>,
      << "X", "R", "D" >>,
      << "O", "E", "M" >>,
      << "A", "h" >>,
      << "U+88C5", "U+7F6E" >>,
      << "U+88C5", "U+7F6E", " ", "X", "1" >>,
      << "X" >> }

RawLists == UNION { [ 1..n -> RawItems ] : n \in 0..MaxRaw }

\* the categories of the vocabulary, and a key that is none of them
FilterCategories == CategorySet \cup { "other" }

FilterInit ==
    /\ AllocIdle
    /\ EnforceIdle
    /\ ValidateIdle
    /\ SessionIdle
    /\ filtering \in { Unfiltered(c, raw) : c \in FilterCategories, raw \in RawLists }

FilterNext == FilterOnce \/ FilterAgain

SpecFilter == FilterInit /\ [][FilterNext]_vars

----------------------------------------------------------------------------
(* main: the buttons of the page and st.session_state.  What the extraction
   and the language model return is drawn from small sets. *)

\* the vocabularies extract_job_specific_info returns when it returns one
UIVocabularies == { InfoAB, InfoD, InfoE }

UIScenarios ==
    { GoodScenario,
      [ GoodScenario EXCEPT !.second = "without_term" ],
      [ GoodScenario EXCEPT !.second = "with_term" ],
      [ GoodScenario EXCEPT !.case = 8 ],
      [ GoodScenario EXCEPT !.raci = << "R", "A" >> ] }

\* the tables generate_bp_with_job_info returns when it returns one
UITables == { ScenarioTable(sc) : sc \in UIScenarios }

\* the embedding check of a validation, with and without a client
UIEmbeddings(openai) == IF openai THEN { "non_negative", "negative" } ELSE { "no_client" }

\* bool(job_info), bool(bp_data)
Truthy(dict) == DOMAIN dict # {}

\* session_state after validate_job_specificity(bp_data): metrics, verdict, errors
Validated(state, info, profile, table, embedding) ==
    Bind(validate_job_specificity(info, profile, table, embedding, FALSE),
         LAMBDA out :
             [ state EXCEPT !.validation_metrics  = out.metrics,
                            !.validation_is_valid = out.is_valid,
                            !.validation_errors   = out.errors ])

\* the button that generates the table: extraction, construction, validation
ClickGenerate ==
    /\ session_state.openai_api_key
    /\ \E extracted \in UIVocabularies \cup { NoInfo },
          built \in UITables \cup { EmptyTable },
          profile \in ValidatorProfiles,
          embedding \in UIEmbeddings(TRUE) :
          \E job_info \in { IF session_state.serpapi_key THEN extracted ELSE NoInfo } :
          \E table \in { IF Truthy(job_info) THEN built ELSE EmptyTable } :
          \E stored \in { [ session_state EXCEPT !.job_info = job_info,
                                                  !.bp_data = table ] } :
              IF Truthy(table)
              THEN /\ session_state' = Validated(stored, job_info, profile, table, embedding)
                   /\ last_click' = [ button |-> "generate",
                                      validated |-> << [ info |-> job_info,
                                                         bp_data |-> table ] >> ]
              ELSE /\ session_state' =
                          [ stored EXCEPT !.validation_is_valid = FALSE,
                                          !.validation_errors =
                                              << [ check |-> "not_generated" ] >> ]
                   /\ last_click' = [ button |-> "generate", validated |-> << >> ]
    /\ UNCHANGED << alloc_vars, enforce_vars, validate_vars, filter_vars >>

\* (validation_metrics or {}).get('phases_without_specificity', [])
MissingPhases(state) ==
    IF "phases_without_specificity" \in DOMAIN state.validation_metrics
    THEN state.validation_metrics.phases_without_specificity
    ELSE << >>

\* what regenerate_missing_phases returns: the table as it is, or the
\* table with phases of the answer set
Regenerated(table) == { table } \cup { t \in UITables : DOMAIN table \subseteq DOMAIN t }

\* the button that regenerates the phases without a term, on a new analyzer,
\* the profile of which is not loaded
ClickRegenerate ==
    /\ Truthy(session_state.bp_data)
    /\ Truthy(session_state.job_info)
    /\ ~ session_state.validation_is_valid
    /\ MissingPhases(session_state) # << >>
    /\ \E table \in Regenerated(session_state.bp_data),
          embedding \in UIEmbeddings(session_state.openai_api_key) :
          /\ session_state' =
                 Validated([ session_state EXCEPT !.bp_data = table ],
                           session_state.job_info, "none", table, embedding)
          /\ last_click' = [ button |-> "regenerate",
                             validated |-> << [ info |-> session_state.job_info,
                                                bp_data |-> table ] >> ]
    /\ UNCHANGED << alloc_vars, enforce_vars, validate_vars, filter_vars >>

ResetKeepingVerdict(state) ==
    [ state EXCEPT !.job_info = NoInfo,
                   !.bp_data = EmptyTable,
                   !.validation_metrics = NoMetrics ]

\* the assignments of the reset button
Reset(state) ==
    [ state EXCEPT !.job_info = NoInfo,
                   !.bp_data = EmptyTable,
                   !.validation_metrics = NoMetrics,
                   !.validation_is_valid = FALSE,
                   !.validation_errors = << >> ]

\* the reset button, shown when a table or a vocabulary is stored
ClickReset ==
    /\ Truthy(session_state.bp_data) \/ Truthy(session_state.job_info)
    /\ session_state' = Reset(session_state)
    /\ last_click' = [ button |-> "reset", validated |-> << >> ]
    /\ UNCHANGED << alloc_vars, enforce_vars, validate_vars, filter_vars >>

\* a key typed into the sidebar
EnterKey ==
    /\ \/ /\ ~ session_state.openai_api_key
          /\ session_state' = [ session_state EXCEPT !.openai_api_key = TRUE ]
       \/ /\ ~ session_state.serpapi_key
          /\ session_state' = [ session_state EXCEPT !.serpapi_key = TRUE ]
    /\ last_click' = [ button |-> "none", validated |-> << >> ]
    /\ UNCHANGED << alloc_vars, enforce_vars, validate_vars, filter_vars >>

\* the button of the sidebar that clears the keys, shown unless both are set
ClearKeys ==
    /\ ~ (session_state.openai_api_key /\ session_state.serpapi_key)
    /\ session_state.openai_api_key \/ session_state.serpapi_key
    /\ session_state' = [ session_state EXCEPT !.openai_api_key = FALSE,
                                               !.serpapi_key = FALSE ]
    /\ last_click' = [ button |-> "clear_keys", validated |-> << >> ]
    /\ UNCHANGED << alloc_vars, enforce_vars, validate_vars, filter_vars >>

\* a new browser session, the keys as the environment provides them
SessionInit ==
    /\ AllocIdle
    /\ EnforceIdle
    /\ ValidateIdle
    /\ FilterIdle
    /\ \E openai, serpapi \in BOOLEAN : session_state = NoSession(openai, serpapi)
    /\ last_click = NothingClicked

SessionNext ==
    \/ ClickGenerate
    \/ ClickRegenerate
    \/ ClickReset
    \/ EnterKey
    \/ ClearKeys

SpecSession == SessionInit /\ [][SessionNext]_vars

----------------------------------------------------------------------------
(* Properties of the allocation pass *)

\* the cap the specification gives a term
ClaimedCap(term, profile) == IF term \in core_terms(profile) THEN 5 ELSE 3

Min(a, b) == IF a < b THEN a ELSE b

\* how often the plan holds the term in the cells of one category
PlacedInCategory(plan, cat, term) ==
    SumOver([ pk \in PhaseSet |-> Count(plan[pk][cat], term) ], PhaseSet)

\* how many of the visits of categories 1..k to the term find it below its cap:
\* the n-th visit does as long as n <= cap
VisitsUpTo(job_info, k, term) ==
    SumOver([ j \in 1..k |-> Count(rep(job_info)[Categories[j]], term) ], 1..k)

VisitsBelowCap(job_info, k, term, cap) ==
    Min(cap, VisitsUpTo(job_info, k, term)) - Min(cap, VisitsUpTo(job_info, k - 1, term))

\* C1: in the plan of one allocation pass every term is in at most cap(term)
\* cells, 5 for a core term and 3 for any other, whatever the vocabulary
\* (the same string in several categories, or repeated within one).
C1_ReuseCapPerPlan ==
    \A s \in Sessions : \A t \in TermSet :
        Cardinality(CellsWith(assignments[s], t)) <= ClaimedCap(t, profile_name[s])

\* a pass has met both caps: the core term is listed in more than 5 categories
\* and holds 5 cells, the other in more than 3 and holds 3
C1_Witness ==
    /\ calls["s1"] = 1
    /\ Visits(job_specific_info["s1"], "NCM811") > 5
    /\ Cardinality(CellsWith(assignments["s1"], "NCM811")) = 5
    /\ Visits(job_specific_info["s1"], "XRD") > 3
    /\ Cardinality(CellsWith(assignments["s1"], "XRD")) = 3

\* C3: after one pass, every visit of a term (within the top-K subset of its
\* category) that finds the term below its cap has placed it in exactly one
\* phase of that category: the category's cells hold the term once for each
\* such visit, never less (a drop) and never more (two phases for one visit).
C3_EveryVisitPlacedOnce ==
    \A s \in Sessions :
        calls[s] > 0 =>
            \A k \in 1..Len(Categories) : \A t \in TermSet :
                PlacedInCategory(assignments[s], Categories[k], t)
                  = VisitsBelowCap(job_specific_info[s], k, t,
                                   ClaimedCap(t, profile_name[s]))

\* a pass that placed a term of a category below the threshold (stakeholders),
\* and skipped a visit of a term at its cap
C3_Witness ==
    /\ calls["s1"] = 1
    /\ PlacedInCategory(assignments["s1"], "stakeholders", "XRD") = 1
    /\ \E k \in 1..Len(Categories) :
         /\ Count(rep(job_specific_info["s1"])[Categories[k]], "NCM811") > 0
         /\ VisitsBelowCap(job_specific_info["s1"], k, "NCM811", 5) = 0

\* the ranking the specification describes: the seven phases by score
\* descending, equal scores by phase index ascending
PhaseRankings ==
    { [ i \in 1..Len(phase_keys) |-> phase_keys[f[i]] ] :
        f \in Permutations(1..Len(phase_keys)) }

IndexOf(pk) == CHOOSE i \in 1..Len(phase_keys) : phase_keys[i] = pk

IsRanking(r, cat) ==
    \A i, j \in 1..Len(r) :
        i < j => \/ Score(cat, r[i]) > Score(cat, r[j])
                 \/ Score(cat, r[i]) = Score(cat, r[j]) /\ IndexOf(r[i]) < IndexOf(r[j])

RankingOf == [ c \in CategorySet |-> CHOOSE r \in PhaseRankings : IsRanking(r, c) ]

\* the first phase of the ranking whose score is >= 0.6, the top-ranked one
\* if there is none
ThresholdPhaseOf ==
    [ c \in CategorySet |->
        LET r == RankingOf[c]
            reach == { i \in 1..Len(r) : Score(c, r[i]) >= 6 }
        IN  IF reach = {} THEN r[1]
            ELSE r[CHOOSE i \in reach : \A j \in reach : i <= j] ]

\* C4: a term is placed in the first phase of the affinity ranking whose score
\* is >= 0.6, and in the top-ranked phase if no phase reaches 0.6; NCM811 of
\* materials_or_products (phase_3 1.0, phase_4 0.7, phase_7 0.4) goes to
\* phase_3 and not to phase_7.
C4_ThresholdPlacement ==
    \A s \in Sessions :
        calls[s] > 0 =>
            /\ \A c \in CategorySet : \A pk \in PhaseSet :
                  assignments[s][pk][c] # << >> => pk = ThresholdPhaseOf[c]
            /\ Count(rep(job_specific_info[s])["materials_or_products"], "NCM811") > 0
                  => /\ Count(assignments[s]["phase_3"]["materials_or_products"],
                               "NCM811") > 0
                     /\ Count(assignments[s]["phase_7"]["materials_or_products"],
                               "NCM811") = 0

\* a pass that placed NCM811 of materials_or_products above the threshold and a
\* stakeholders term, whose phases all score 0.5, in the top-ranked phase
C4_Witness ==
    /\ calls["s1"] = 1
    /\ Count(assignments["s1"]["phase_3"]["materials_or_products"], "NCM811") > 0
    /\ assignments["s1"]["phase_1"]["stakeholders"] # << >>

----------------------------------------------------------------------------
(* Properties of repeated and interleaved allocation passes *)

C6_SessionsIsolated ==
    \A s \in Sessions :
        calls[s] > 0 =>
            assignments[s] =
                AllocationPass(job_specific_info[s], core_terms(profile_name[s]),
                               EmptyUsage).assignments

\* both sessions, with different vocabularies, have allocated, one of them
\* again after the other
C6_Witness ==
    /\ calls["s1"] = 2
    /\ calls["s2"] = 1
    /\ job_specific_info["s1"] # job_specific_info["s2"]
    /\ Placements(assignments["s2"], "XRD") = 3
    /\ Placements(assignments["s1"], "XRD") = 1

----------------------------------------------------------------------------
(* The enforcer's guarantees *)

\* what a checked field has to hold: for each set of categories, a term of
\* one of them
Requirements ==
    [ activities |-> { {"processes"}, {"materials_or_products", "tools_and_equipment"} },
      tools      |-> { {"tools_and_equipment"} },
      inputs     |-> { {"materials_or_products", "deliverables"} },
      outputs    |-> { {"deliverables"} },
      kpi        |-> { {"industry_specific_kpi"} },
      risks      |-> { {"common_failures"} } ]

HoldsTermOf(req, r, text) == \E c \in req : has_any(Get(r, c), text)

Qualifies(f, r, text) == \A req \in Requirements[f] : HoldsTermOf(req, r, text)

NonEmpty(req, r) == \E c \in req : Get(r, c) # << >>

\* a term of the categories has been selected fewer than UsageCap times
Available(req, r, used) ==
    \E c \in req : \E i \in 1..Len(Get(r, c)) : UsageOf(used, Get(r, c)[i]) < UsageCap

Now(pk, f) == FieldOf(bp_data[pk], f)
Before(pk, f) == FieldOf(bp_before[pk], f)

\* C7 as stated: after one pass every checked field of every phase holds a
\* term of its required category whenever that category's list is non-empty,
\* and is unchanged when the lists of its required categories are empty
C7_EveryFieldQualifies ==
    runs = 1 =>
        \A pk \in PhaseSet : \A f \in CheckedFieldSet :
            /\ \A req \in Requirements[f] :
                   NonEmpty(req, enforcer_rep) => HoldsTermOf(req, enforcer_rep, Now(pk, f))
            /\ (\A req \in Requirements[f] : ~ NonEmpty(req, enforcer_rep))
                   => Now(pk, f) = Before(pk, f)

\* C7 amended: after one pass a checked field holds a term of its required
\* category whenever, when the field was visited, a term of that category had
\* been selected fewer than three times in the pass; a field none of whose
\* required categories had such a term is unchanged
C7_QualifiesWhileTermsRemain ==
    runs = 1 =>
        \A pk \in PhaseSet : \A f \in CheckedFieldSet :
            /\ \A req \in Requirements[f] :
                   Available(req, enforcer_rep, usage_seen[<< pk, f >>])
                       => HoldsTermOf(req, enforcer_rep, Now(pk, f))
            /\ (\A req \in Requirements[f] :
                    ~ Available(req, enforcer_rep, usage_seen[<< pk, f >>]))
                   => Now(pk, f) = Before(pk, f)

\* a field was repaired, and another, whose category has terms, all of them
\* selected three times already, was left without one
C7_Witness ==
    /\ runs = 1
    /\ \E pk \in PhaseSet : \E f \in CheckedFieldSet :
           /\ Now(pk, f) # Before(pk, f)
           /\ Qualifies(f, enforcer_rep, Now(pk, f))
    /\ \E pk \in PhaseSet : \E f \in CheckedFieldSet : \E req \in Requirements[f] :
           /\ NonEmpty(req, enforcer_rep)
           /\ ~ Available(req, enforcer_rep, usage_seen[<< pk, f >>])
           /\ ~ HoldsTermOf(req, enforcer_rep, Now(pk, f))
           /\ Now(pk, f) = Before(pk, f)

Separators == { SlashSep, CommaSep, ColonSep }

IsTail(tail, text) ==
    /\ Len(tail) <= Len(text)
    /\ SubSeq(text, Len(text) - Len(tail) + 1, Len(text)) = tail

\* C8 as stated: a repaired checked field is the selected terms, a separator,
\* and the complete original text of the field
C8_OriginalTextKept ==
    runs = 1 =>
        \A pk \in PhaseSet : \A f \in CheckedFieldSet :
            Now(pk, f) # Before(pk, f) =>
                \E sep \in Separators :
                    /\ IsTail(sep \o Before(pk, f), Now(pk, f))
                    /\ Len(Now(pk, f)) > Len(sep \o Before(pk, f))

\* C9 as stated: the table and the vocabulary the caller passed are unchanged
\* after the call
C9_InputsUnchanged ==
    runs >= 1 => bp_data = bp_before /\ enforcer_rep = rep_before

\* C9 amended: the vocabulary is unchanged, and the table the caller passed is
\* the returned table, repairs included
C9_RepairsInCallerTable ==
    runs >= 1 => bp_data = returned /\ enforcer_rep = rep_before

\* the pass repaired a field of the caller's table
C9_Witness ==
    /\ runs = 1
    /\ \E pk \in PhaseSet : \E f \in CheckedFieldSet : Now(pk, f) # Before(pk, f)
    /\ bp_data = returned

\* C10: a second run on the table the first run returned, with the same
\* vocabulary, changes no checked field that satisfies its test when the
\* second run starts
C10_PassingFieldsKept ==
    runs >= 2 =>
        \A pk \in PhaseSet : \A f \in CheckedFieldSet :
            Qualifies(f, enforcer_rep, Before(pk, f)) => Now(pk, f) = Before(pk, f)

\* the second run repaired a field and met a field the first run had repaired
C10_Witness ==
    /\ runs = 2
    /\ \E pk \in PhaseSet : \E f \in CheckedFieldSet : Now(pk, f) # Before(pk, f)
    /\ \E pk \in PhaseSet :
           /\ Qualifies("kpi", enforcer_rep, Before(pk, "kpi"))
           /\ Before(pk, "kpi") # GenericText
           /\ Now(pk, "kpi") = Before(pk, "kpi")

----------------------------------------------------------------------------
(* Scenario E: an activities field with a processes term only *)

MatOrTool == { "materials_or_products", "tools_and_equipment" }

\* the field held a processes term and no term of materials or tools
ProcessOnly(pk) ==
    /\ HoldsTermOf({"processes"}, enforcer_rep, Before(pk, "activities"))
    /\ ~ HoldsTermOf(MatOrTool, enforcer_rep, Before(pk, "activities"))

\* the text ends with ' : ' and the original, after a term of materials or tools
GainedMatOrTool(pk) ==
    /\ IsTail(ColonSep \o Before(pk, "activities"), Now(pk, "activities"))
    /\ HoldsTermOf(MatOrTool, enforcer_rep,
                   SubSeq(Now(pk, "activities"), 1,
                          Len(Now(pk, "activities")) - Len(Before(pk, "activities"))))

\* C11 as stated: an activities field that holds a processes term and no
\* materials or tools term, the materials or tools list being non-empty, ends
\* with its original text after the pass and has a materials or tools term
\* prepended
C11_ProcessOnlyGainsTerm ==
    runs = 1 =>
        \A pk \in PhaseSet :
            ProcessOnly(pk) /\ NonEmpty(MatOrTool, enforcer_rep) => GainedMatOrTool(pk)

\* C11 amended: such a field ends with its original text and has a materials
\* or tools term prepended whenever, when the field is visited, a materials or
\* tools term has been selected fewer than three times in the pass
C11_GainsTermWhileTermsRemain ==
    runs = 1 =>
        \A pk \in PhaseSet :
            /\ ProcessOnly(pk)
            /\ Available(MatOrTool, enforcer_rep, usage_seen[<< pk, "activities" >>])
            => GainedMatOrTool(pk)

\* a field with a processes term only gained a materials or tools term, in a
\* phase later than the first
C11_Witness ==
    /\ runs = 1
    /\ \E pk \in PhaseSet \ {"phase_1"} :
           /\ ProcessOnly(pk)
           /\ Available(MatOrTool, enforcer_rep, usage_seen[<< pk, "activities" >>])
           /\ GainedMatOrTool(pk)
           /\ Before(pk, "activities") = Term("P", 1)

----------------------------------------------------------------------------
(* The validator's verdict and its errors *)

\* the measures of the table and the vocabulary the validator was given
Measured ==
    Metrics(validator_in.info, validator_in.profile, validator_in.bp_data,
            validator_in.embedding, validator_in.float_low)

NothingToValidate == DOMAIN validator_in.info = {} \/ DOMAIN validator_in.bp_data = {}

\* the eight conditions, the ratios and the coverage as exact quotients
SpecificRatioHolds(m) == m.job_specific_count * 100 >= 3 * WordsOf(m)
GenericRatioHolds(m) == m.generic_count * 100 <= 20 * WordsOf(m)
SpecificCountHolds(m) == m.job_specific_count >= 10
CoverageHolds(m) ==
    m.weight_total > 0 /\ 2 * m.weighted_sum >= CoverageUnit * m.weight_total
ScaleOrderHolds(m) == scale_stages(validator_in.profile) # << >> => m.scale_order_ok
RaciHolds(m) == \A i \in 1..4 : m.raci_flags[i]
PhasesHold(m) == m.phases_without_specificity = << >>
CategoriesHold(m) == m.missing_categories = << >>

\* the coverage condition on the quotient floating-point division gives
ComputedCoverageHolds(m) ==
    /\ m.weight_total > 0
    /\ \/ 2 * m.weighted_sum > CoverageUnit * m.weight_total
       \/ 2 * m.weighted_sum = CoverageUnit * m.weight_total /\ ~ m.float_low

\* the names of the checks that fail, in the order of the checks
FailingChecks(m, coverage_holds) ==
    Flatten(<< IF SpecificRatioHolds(m) THEN << >> ELSE << "job_specific_ratio" >>,
               IF GenericRatioHolds(m) THEN << >> ELSE << "generic_ratio" >>,
               IF SpecificCountHolds(m) THEN << >> ELSE << "job_specific_count" >>,
               IF coverage_holds THEN << >> ELSE << "weighted_coverage" >>,
               IF ScaleOrderHolds(m) THEN << >> ELSE << "scale_order" >>,
               IF RaciHolds(m) THEN << >> ELSE << "raci" >>,
               IF PhasesHold(m) THEN << >> ELSE << "phases_without_specificity" >>,
               IF CategoriesHold(m) THEN << >> ELSE << "missing_categories" >> >>)

ErrorNames == [ i \in 1..Len(validation.out.errors) |-> validation.out.errors[i].check ]

\* C12 as stated: passed is true exactly when the eight conditions hold,
\* values on a threshold passing
C12_PassedIffEightConditions ==
    validation.done =>
        (validation.out.is_valid <=> FailingChecks(Measured, CoverageHolds(Measured)) = << >>)

\* C12 amended: passed is true exactly when the eight conditions hold, the
\* weighted coverage being the floating-point quotient, and the embedding
\* specificity score, where one was obtained, is not negative
C12_PassedIffNineChecks ==
    validation.done =>
        (validation.out.is_valid <=>
            /\ FailingChecks(Measured, ComputedCoverageHolds(Measured)) = << >>
            /\ validator_in.embedding # "negative")

\* a table passed with a generic ratio of exactly 20 and a count of exactly 10
C12_Witness ==
    /\ validation.done
    /\ validation.out.is_valid
    /\ validation.out.metrics.job_specific_count = 10
    /\ validation.out.metrics.generic_count * 100
         = 20 * validation.out.metrics.total_words

\* C13 as stated: the errors are one entry for each failing check of the
\* eight and none for a passing one, in the order of the checks
C13_ErrorsAreTheFailingChecks ==
    validation.done => ErrorNames = FailingChecks(Measured, CoverageHolds(Measured))

\* C13 amended: with a vocabulary and a table that are not empty, the errors
\* are an entry for a negative embedding score, if there is one, and then one
\* entry for each failing check of the eight, in the order of the checks;
\* with an empty vocabulary or table they are a single entry
C13_ErrorsInOrder ==
    validation.done =>
        ErrorNames =
            IF NothingToValidate THEN << "insufficient" >>
            ELSE (IF validator_in.embedding = "negative" THEN << "embedding" >> ELSE << >>)
                   \o FailingChecks(Measured, ComputedCoverageHolds(Measured))

\* four checks failed, after a negative embedding score
C13_Witness ==
    /\ validation.done
    /\ Len(ErrorNames) >= 5
    /\ ErrorNames[1] = "embedding"
    /\ ErrorNames[2] = "job_specific_ratio"

CountEntry(count) ==
    [ check |-> "job_specific_count", value |-> count, threshold |-> 10 ]

HasEntry(entry) ==
    \E i \in 1..Len(validation.out.errors) : validation.out.errors[i] = entry

\* C14 as stated: a table whose specific count is below 10 is failed with an
\* entry naming the count, its value and the threshold 10, and a count of 10
\* or more gives no such entry
C14_CountBelowTenNamed ==
    validation.done =>
        IF Measured.job_specific_count < 10
        THEN /\ ~ validation.out.is_valid
             /\ HasEntry(CountEntry(Measured.job_specific_count))
        ELSE "job_specific_count" \notin { ErrorNames[i] : i \in 1..Len(ErrorNames) }

\* C14 amended: a table whose specific count is below 10 is failed; the
\* errors hold the entry naming the count, its value and the threshold 10
\* exactly when the count is below 10 and neither the vocabulary nor the table
\* is empty
C14_CountBelowTenFails ==
    validation.done =>
        /\ Measured.job_specific_count < 10 => ~ validation.out.is_valid
        /\ HasEntry(CountEntry(Measured.job_specific_count))
             <=> (Measured.job_specific_count < 10 /\ ~ NothingToValidate)
        /\ Measured.job_specific_count >= 10
             => "job_specific_count" \notin { ErrorNames[i] : i \in 1..Len(ErrorNames) }

\* a table with a count of 8 was failed, the count named
C14_Witness ==
    /\ validation.done
    /\ Measured.job_specific_count = 8
    /\ HasEntry(CountEntry(8))
    /\ ~ validation.out.is_valid

\* C15 as stated: the errors hold the entry citing the weighted coverage and
\* the threshold 0.50 exactly when the weighted coverage is below 0.50
C15_CoverageBelowHalfCited ==
    validation.done =>
        (HasEntry([ check |-> "weighted_coverage", value |-> ShownCoverage(Measured),
                    threshold |-> 50 ])
           <=> ~ CoverageHolds(Measured))

----------------------------------------------------------------------------
(* C16, C17: the filters *)

\* the string matches a pattern of an organization or institution
NamesOrganization(it) == MatchesAny(EXCLUSION_PATTERNS, it)

\* the raw list has been filtered
Filtered == filtering.step >= 1

\* C16: for every raw list and every category, stakeholders among them, no
\* string of the category filter's output matches an exclusion pattern.
C16_NoOrganizationInOutput ==
    Filtered =>
        \A i \in 1..Len(filtering.filtered) : ~ NamesOrganization(filtering.filtered[i])

\* a stakeholders list with the name of an organization in it, of which
\* the filter kept a role
C16_Witness ==
    /\ Filtered
    /\ filtering.category = "stakeholders"
    /\ \E i \in 1..Len(filtering.raw) : NamesOrganization(filtering.raw[i])
    /\ filtering.filtered # << >>
    /\ Len(filtering.filtered) < Len(filtering.raw)

\* C17: the two filters applied to their own output return the same list,
\* for every category and every raw list.
C17_Idempotent == filtering.step = 2 => filtering.twice = filtering.once

----------------------------------------------------------------------------
(* C18 .. C20: ties, terms shared by categories, categories that add nothing *)

\* the phases of the category all have the same score
AllScoresEqual(cat) ==
    \A pk, qk \in PhaseSet : Score(cat, pk) = Score(cat, qk)

\* the terms the pass placed for the category, phase by phase
CellsOf(plan, cat) == [ pk \in PhaseSet |-> plan[pk][cat] ]

\* C18: the allocator's ranking of the seven phases is by score descending,
\* phases of equal score by phase index ascending; a category whose scores are
\* all equal (stakeholders, 0.5 everywhere) has phase_1 first, and its terms
\* are placed in phase_1 and in no other phase.
C18_TiesByPhaseIndex ==
    \A s \in Sessions :
        calls[s] > 0 =>
            \A c \in CategorySet :
                /\ IsRanking(sorted_phases(c), c)
                /\ AllScoresEqual(c) =>
                      /\ sorted_phases(c)[1] = "phase_1"
                      /\ \A pk \in PhaseSet \ { "phase_1" } : assignments[s][pk][c] = << >>
                      /\ \A t \in TermSet :
                            Count(assignments[s]["phase_1"][c], t)
                              = PlacedInCategory(assignments[s], c, t)

\* a pass placed both terms of stakeholders, in the order of the list, in
\* phase_1; deliverables, with phase_1 and phase_7 tied at 0.6, has a term too
C18_Witness ==
    /\ calls["s1"] = 1
    /\ AllScoresEqual("stakeholders")
    /\ assignments["s1"]["phase_1"]["stakeholders"] = << "XRD", "NCM811" >>
    /\ Score("deliverables", "phase_1") = Score("deliverables", "phase_7")
    /\ assignments["s1"]["phase_5"]["deliverables"] # << >>

\* C19: the count of a term is kept for the string alone: what one category
\* placed of it counts when a later category lists the same string.  A
\* category that lists a term places it exactly when the categories before it
\* listed it fewer than cap times, so that a standard term listed in four
\* categories is placed for the first three and skipped for the fourth; the
\* counter of the term is the number of its placements over all categories.
C19_UsageKeyedByTerm ==
    \A s \in Sessions :
        calls[s] > 0 =>
            \A t \in TermSet :
                /\ usage_count[t] = Placements(assignments[s], t)
                /\ \A k \in 1..Len(Categories) :
                      Count(rep(job_specific_info[s])[Categories[k]], t) > 0 =>
                          ( PlacedInCategory(assignments[s], Categories[k], t) > 0
                              <=> VisitsUpTo(job_specific_info[s], k - 1, t)
                                    < ClaimedCap(t, profile_name[s]) )

\* the categories that list the term, in the order the pass visits them
ListedIn(job_info, term) ==
    SelectSeq(Categories, LAMBDA c : Count(rep(job_info)[c], term) > 0)

\* the standard term is listed once in each of four categories or more: the
\* first three hold it and the fourth does not
C19_Witness ==
    LET listed == ListedIn(job_specific_info["s1"], "XRD")
    IN  /\ calls["s1"] = 1
        /\ "XRD" \notin core_terms(profile_name["s1"])
        /\ Len(listed) >= 4
        /\ \A i \in 1..Len(listed) : Count(rep(job_specific_info["s1"])[listed[i]], "XRD") = 1
        /\ \A i \in 1..3 : PlacedInCategory(assignments["s1"], listed[i], "XRD") = 1
        /\ PlacedInCategory(assignments["s1"], listed[4], "XRD") = 0
        /\ usage_count["XRD"] = 3

\* the vocabulary without the category
Without(job_info, cat) == [ d \in DOMAIN job_info \ { cat } |-> job_info[d] ]

\* the vocabulary of the categories the pass visits before the k-th
Preceding(job_info, k) ==
    [ d \in DOMAIN job_info \cap { Categories[j] : j \in 1..(k - 1) } |-> job_info[d] ]

\* the list of the k-th category is empty or missing
NothingListed(job_info, k) == rep(job_info)[Categories[k]] = << >>

\* every term of the k-th category is at its cap when the pass comes to it
AllAtCap(job_info, k, profile) ==
    LET terms == rep(job_info)[Categories[k]]
        usage == AllocationPass(Preceding(job_info, k), core_terms(profile),
                                EmptyUsage).usage_count
    IN  /\ terms # << >>
        /\ \A i \in 1..Len(terms) : usage[terms[i]] >= ClaimedCap(terms[i], profile)

\* C20: the pass completes with a plan whatever the vocabulary; a category
\* whose list is empty or missing, or whose terms are all at their cap when it
\* is visited, adds no term to any phase, and the cells of every other
\* category are those of the pass over the vocabulary without that category.
C20_IdleCategoryAddsNothing ==
    \A s \in Sessions :
        calls[s] > 0 =>
            /\ DOMAIN assignments[s] = PhaseSet
            /\ \A pk \in PhaseSet : DOMAIN assignments[s][pk] = CategorySet
            /\ \A k \in 1..Len(Categories) :
                  \/ NothingListed(job_specific_info[s], k)
                  \/ AllAtCap(job_specific_info[s], k, profile_name[s])
                  => /\ \A pk \in PhaseSet : assignments[s][pk][Categories[k]] = << >>
                     /\ \A d \in CategorySet \ { Categories[k] } :
                           CellsOf(assignments[s], d)
                             = CellsOf(AllocationPass(
                                         Without(job_specific_info[s], Categories[k]),
                                         core_terms(profile_name[s]),
                                         EmptyUsage).assignments, d)

\* a pass over a vocabulary with a missing category, an empty one or one whose
\* terms were all at their cap, and with terms placed for other categories
C20_Witness ==
    /\ calls["s1"] = 1
    /\ \E k \in 1..Len(Categories) : AllAtCap(job_specific_info["s1"], k, profile_name["s1"])
    /\ \E k \in 1..Len(Categories) :
         /\ NothingListed(job_specific_info["s1"], k)
         /\ \E j \in (k + 1)..Len(Categories) :
              \E pk \in PhaseSet : assignments["s1"][pk][Categories[j]] # << >>

----------------------------------------------------------------------------
(* C21 .. C23, C29: one enforcement pass *)

\* the fields the pass visited
VisitedFields == DOMAIN usage_seen

\* the first field the pass visited: no field was visited with a smaller counter
FirstVisits ==
    { v \in VisitedFields :
        \A w \in VisitedFields : \A t \in DOMAIN usage_seen[v] :
            UsageOf(usage_seen[v], t) <= UsageOf(usage_seen[w], t) }

\* C21: in one enforcement pass a term that has been selected 3 times is not
\* selected again, so that no term is injected more than 3 times in the pass;
\* the pass starts from an empty counter, whatever ran before it.
C21_AtMostThreePerPass ==
    runs >= 1 =>
        /\ \A t \in DOMAIN usage_after : usage_after[t] <= UsageCap
        /\ \A v \in VisitedFields : \A t \in DOMAIN usage_seen[v] :
               usage_seen[v][t] >= UsageCap => usage_after[t] = usage_seen[v][t]
        /\ \A v \in FirstVisits : usage_seen[v] = NoUsage

\* the place of a field in the order the pass visits the fields of a table
\* whose seven phases are all records
VisitIndex(pk, f) ==
    (IndexOf(pk) - 1) * Len(CheckedFields)
      + (CHOOSE i \in 1..Len(CheckedFields) : CheckedFields[i] = f)

\* the counter the pass had when it left the field: the one the next field
\* was visited with, the final one for the last field
CounterAfter(pk, f) ==
    IF \E v \in VisitedFields : VisitIndex(v[1], v[2]) = VisitIndex(pk, f) + 1
    THEN usage_seen[CHOOSE v \in VisitedFields :
                        VisitIndex(v[1], v[2]) = VisitIndex(pk, f) + 1]
    ELSE usage_after

\* how many terms the pass selected while it was at the field
InjectedInto(pk, f) ==
    LET after == CounterAfter(pk, f)
    IN  SumOver([ t \in DOMAIN after |-> after[t] - UsageOf(usage_seen[<< pk, f >>], t) ],
                DOMAIN after)

\* the bounds as stated: two for every field
StatedTermBound ==
    [ activities |-> 2, tools |-> 2, inputs |-> 2, outputs |-> 2, kpi |-> 2, risks |-> 2 ]

\* the bounds of the calls of select_best_terms
TermBound ==
    [ activities |-> 2, tools |-> 3, inputs |-> 1, outputs |-> 2, kpi |-> 2, risks |-> 2 ]

\* C22 as stated: the pass injects into a failing field at most one processes
\* term and one materials-or-tools term for activities, and at most 2 terms
\* for each of tools, kpi, risks, inputs and outputs
C22_AtMostTwoTerms ==
    runs = 1 =>
        \A pk \in PhaseSet : \A f \in CheckedFieldSet :
            InjectedInto(pk, f) <= StatedTermBound[f]

\* C22 amended: at most one processes term and one materials-or-tools term
\* for activities, at most 3 terms for tools, at most 1 for inputs and at most
\* 2 for each of outputs, kpi and risks; a field that is left as it was has
\* no term injected
C22_AtMostNTerms ==
    runs = 1 =>
        \A pk \in PhaseSet : \A f \in CheckedFieldSet :
            /\ InjectedInto(pk, f) <= TermBound[f]
            /\ Now(pk, f) = Before(pk, f) => InjectedInto(pk, f) = 0

\* a tools field was given three terms, an inputs field one and a kpi field two
C22_Witness ==
    /\ runs = 1
    /\ \E pk \in PhaseSet :
           /\ InjectedInto(pk, "tools") = 3
           /\ InjectedInto(pk, "inputs") = 1
           /\ InjectedInto(pk, "kpi") = 2
           /\ InjectedInto(pk, "activities") = 2

\* the phases of a table that are records
RecordPhases(table) == { pk \in DOMAIN table \cap PhaseSet : IsDict(table[pk]) }

\* the table with every checked field a record lacks set to the empty string
WithEmptyFields(table) ==
    [ k \in DOMAIN table |->
        IF k \in RecordPhases(table)
        THEN Dict([ f \in DOMAIN table[k].dict \cup CheckedFieldSet |->
                      FieldOf(table[k], f) ])
        ELSE table[k] ]

\* the checked fields the record of the phase lacked before the pass
LackedFields(pk) == CheckedFieldSet \ DOMAIN bp_before[pk].dict

\* C23: the pass ends without a failure on a table that lacks fields or
\* phases.  A checked field a record lacks is handled as the empty string:
\* every field is after the pass what it is after a pass over the table with
\* the lacking fields set to '', and the field is created, with a term of its
\* category, when a term of a required category is available.  The phases a
\* table has are all visited when others are lacking, and none is added.
C23_MissingFieldIsEmpty ==
    runs = 1 =>
        /\ DOMAIN bp_data = DOMAIN bp_before
        /\ RecordPhases(bp_data) = RecordPhases(bp_before)
        /\ \A pk \in RecordPhases(bp_before) : \A f \in CheckedFieldSet :
               /\ << pk, f >> \in VisitedFields
               /\ FieldOf(bp_data[pk], f)
                    = FieldOf(_enforce_specificity(WithEmptyFields(bp_before),
                                                   enforcer_rep).result[pk], f)
               /\ f \in LackedFields(pk) =>
                     /\ (\E req \in Requirements[f] :
                            Available(req, enforcer_rep, usage_seen[<< pk, f >>]))
                          => /\ f \in DOMAIN bp_data[pk].dict
                             /\ bp_data[pk].dict[f] # << >>
                     /\ \A req \in Requirements[f] :
                            Available(req, enforcer_rep, usage_seen[<< pk, f >>])
                              => HoldsTermOf(req, enforcer_rep, FieldOf(bp_data[pk], f))

\* a record lacked a checked field and the pass created it with a term
C23_Witness ==
    /\ runs = 1
    /\ \E pk \in RecordPhases(bp_before) : \E f \in LackedFields(pk) :
           /\ f \in DOMAIN bp_data[pk].dict
           /\ Qualifies(f, enforcer_rep, bp_data[pk].dict[f])

\* the fields of the record of a phase, before or after the pass
FieldsOf(pk) == DOMAIN bp_before[pk].dict \cup DOMAIN bp_data[pk].dict

\* C29: the pass changes nothing but failing checked fields.  Every key of the
\* table that is not one of phase_1 .. phase_7 and every entry that is not a
\* record is after the call what it was before, no key is added or removed,
\* and in every record the fields stakeholders, countermeasures and
\* phase_name and every checked field that passes its test are unchanged.
C29_OnlyFailingFieldsChange ==
    runs >= 1 =>
        /\ DOMAIN bp_data = DOMAIN bp_before
        /\ \A k \in DOMAIN bp_before \ RecordPhases(bp_before) : bp_data[k] = bp_before[k]
        /\ \A pk \in RecordPhases(bp_before) : \A f \in FieldsOf(pk) :
               \/ f \notin CheckedFieldSet
               \/ Qualifies(f, enforcer_rep, FieldOf(bp_before[pk], f))
               => /\ f \in DOMAIN bp_before[pk].dict
                  /\ f \in DOMAIN bp_data[pk].dict
                  /\ bp_data[pk].dict[f] = bp_before[pk].dict[f]

\* the pass repaired a field of a table that has an entry that is no record
\* and a key that is no phase, and met a checked field that passed its test
C29_Witness ==
    /\ runs = 1
    /\ \E k \in DOMAIN bp_before \ PhaseSet : bp_data[k] = bp_before[k]
    /\ \E pk \in PhaseSet \cap DOMAIN bp_before : ~ IsDict(bp_before[pk])
    /\ \E pk \in RecordPhases(bp_before) :
           /\ bp_data[pk].dict["risks"] # bp_before[pk].dict["risks"]
           /\ Qualifies("kpi", enforcer_rep, bp_before[pk].dict["kpi"])
           /\ bp_data[pk].dict["kpi"] = bp_before[pk].dict["kpi"]

----------------------------------------------------------------------------
(* C24 .. C26: the coverage, the scale order and the categories not reflected *)

\* the metrics the validation returned
Reported == validation.out.metrics

\* the reference limits and the weights (in tenths) the coverage is stated with
StatedLimit(cat) ==
    IF cat \in {"materials_or_products", "processes", "stakeholders"} THEN 10 ELSE 8

StatedWeight(cat) ==
    CASE cat \in {"materials_or_products", "processes"}              -> 20
      [] cat \in {"tools_and_equipment", "industry_specific_kpi"}     -> 15
      [] cat \in {"constraints_or_regulations", "common_failures"}    -> 12
      [] OTHER                                                         -> 10

\* the categories of the vocabulary that list a term
Listed == { cat \in DOMAIN validator_in.info : validator_in.info[cat] # << >> }

\* the text of the table validated, in lower case, as one sequence
LoweredTable == lower(JsonTable(validator_in.bp_data)) \o << >>

\* how many top-K terms a category has
TopCount(cat) == Min(StatedLimit(cat), Len(validator_in.info[cat]))

\* how many of the top-K terms of a category occur in the text
PresentCount(text, cat) ==
    Cardinality({ i \in 1..TopCount(cat) :
                    \E term \in { lower(validator_in.info[cat][i]) } :
                        Contains(text, term) })

\* C24 as stated: the coverage of a category is presentCount / K with K the
\* fixed reference limit of the category, and the weighted coverage is in [0, 1]
C24_CoverageOverFixedLimit ==
    (validation.done /\ ~ NothingToValidate) =>
        \E text \in { LoweredTable } :
            /\ \A cat \in Listed :
                   Reported.coverage[cat].present * StatedLimit(cat)
                     = PresentCount(text, cat) * Reported.coverage[cat].size
            /\ 0 <= Reported.weighted_sum
            /\ Reported.weighted_sum <= CoverageUnit * Reported.weight_total

\* C24: the coverage of a category that lists a term is presentCount divided
\* by the number of its top-K terms, min(K, terms listed); the weighted
\* coverage is the sum of coverage x weight over the sum of the weights, both
\* over the categories that list a term, and it lies in [0, 1].
C24_CoverageOverListedTerms ==
    (validation.done /\ ~ NothingToValidate) =>
        \E text \in { LoweredTable } :
          \E present \in { [ cat \in Listed |-> PresentCount(text, cat) ] } :
            /\ \A cat \in Listed :
                   Reported.coverage[cat]
                     = [ present |-> present[cat], size |-> TopCount(cat) ]
            /\ Reported.weighted_sum
                 = SumOver([ cat \in Listed |->
                               present[cat] * StatedWeight(cat)
                                 * (CoverageUnit \div TopCount(cat)) ], Listed)
            /\ Reported.weight_total
                 = SumOver([ cat \in Listed |-> StatedWeight(cat) ], Listed)
            /\ 0 <= Reported.weighted_sum
            /\ Reported.weighted_sum <= CoverageUnit * Reported.weight_total

\* a validated vocabulary with more tools than the limit, the tool past the
\* limit in the table, and one of three processes in the table
C24_Witness ==
    /\ validation.done
    /\ ~ NothingToValidate
    /\ \E cat \in Listed : Len(validator_in.info[cat]) > StatedLimit(cat)
    /\ \E cat \in Listed :
          /\ Len(validator_in.info[cat]) < StatedLimit(cat)
          /\ Reported.coverage[cat].present > 0
          /\ Reported.coverage[cat].present < Reported.coverage[cat].size
    /\ Reported.weighted_sum > 0
    /\ Reported.weighted_sum < CoverageUnit * Reported.weight_total

\* the stages the profile of the validation declares
DeclaredStages == scale_stages(validator_in.profile)

\* the stage is in the text at the offset
StageAt(text, stage, k) == SubSeq(text, k + 1, k + Len(stage)) = stage

Offsets(text, stage) ==
    { k \in 0..(Len(text) - Len(stage)) : StageAt(text, stage, k) }

\* the offset of the stage where the text has it first
FirstOffset(text, stage) ==
    CHOOSE k \in Offsets(text, stage) : \A j \in Offsets(text, stage) : k <= j

\* the offsets of the declared stages that occur never decrease
StagesInOrder(text) ==
    \E at \in { [ i \in { j \in 1..Len(DeclaredStages) :
                               Offsets(text, DeclaredStages[j]) # {} } |->
                     FirstOffset(text, DeclaredStages[i]) ] } :
        \A i, j \in DOMAIN at : i < j => at[i] <= at[j]

\* C25: with stages declared, the scale-order check passes exactly when the
\* offsets at which the stages that occur are first found are non-decreasing
\* in declared order, stages that do not occur being ignored; otherwise the
\* scale-order error is among the errors.
C25_ScaleOrderByOffsets ==
    (validation.done /\ ~ NothingToValidate /\ DeclaredStages # << >>) =>
        \E ordered \in { StagesInOrder(JsonTable(validator_in.bp_data)) } :
            /\ Reported.scale_order_ok <=> ordered
            /\ HasEntry([ check |-> "scale_order" ]) <=> ~ ordered

\* a stage is found before a stage declared earlier, one declared stage
\* being nowhere in the table, and the scale-order error is reported
C25_Witness ==
    /\ validation.done
    /\ ~ NothingToValidate
    /\ DeclaredStages # << >>
    /\ \E text \in { JsonTable(validator_in.bp_data) } :
          /\ \E i \in 1..Len(DeclaredStages) : Offsets(text, DeclaredStages[i]) = {}
          /\ \E i, j \in 1..Len(DeclaredStages) :
                /\ i < j
                /\ Offsets(text, DeclaredStages[i]) # {}
                /\ Offsets(text, DeclaredStages[j]) # {}
                /\ FirstOffset(text, DeclaredStages[j]) < FirstOffset(text, DeclaredStages[i])
    /\ HasEntry([ check |-> "scale_order" ])
    /\ ~ Reported.scale_order_ok

\* none of the top-K terms of the category occurs in the text
NoneOccurs(text, cat) == PresentCount(text, cat) = 0

Unreflected(cat) ==
    \E i \in 1..Len(Reported.missing_categories) : Reported.missing_categories[i] = cat

\* the categories named by the error of the categories not reflected
ReportedCategories ==
    { validation.out.errors[i].missing :
        i \in { j \in 1..Len(validation.out.errors) :
                   validation.out.errors[j].check = "missing_categories" } }

\* C26 as stated: every category of the vocabulary is in missing_categories and
\* in the error of the categories not reflected exactly when none of its top-K
\* terms occurs in the table text, and exactly when its coverage fraction is 0
C26_UnreflectedIffCoverageZero ==
    (validation.done /\ ~ NothingToValidate) =>
        \E text \in { LoweredTable } :
            /\ \A cat \in DOMAIN validator_in.info :
                  /\ Unreflected(cat) <=> NoneOccurs(text, cat)
                  /\ Unreflected(cat) <=>
                        /\ cat \in DOMAIN Reported.coverage
                        /\ Reported.coverage[cat].present = 0
            /\ ReportedCategories
                 = IF Reported.missing_categories = << >> THEN {}
                   ELSE { Reported.missing_categories }

----------------------------------------------------------------------------
(* C27: the category filter, item by item *)

\* the role tokens of the allow-list of roles
RoleTokens == { ALLOWED_ROLE_PATTERNS[i].lit : i \in 1..Len(ALLOWED_ROLE_PATTERNS) }

NamesRole(it) == \E role \in RoleTokens : Contains(it, role)

\* the category has an allow-list and the item matches none of its patterns
OffAllowList(category, it) ==
    /\ category \in DOMAIN ALLOWED_CATEGORY_PATTERNS
    /\ ALLOWED_CATEGORY_PATTERNS[category] # << >>
    /\ ~ MatchesAny(ALLOWED_CATEGORY_PATTERNS[category], it)

\* the rules in their order: exclusion, allow-list, minimum length
Contributes(category, it) ==
    IF NamesOrganization(it) THEN category = "stakeholders" /\ NamesRole(it)
    ELSE ~ OffAllowList(category, it) /\ Len(it) >= 2

\* the items of the raw list that contribute, and the place each has in the output
Contributing == { i \in 1..Len(filtering.raw) : Contributes(filtering.category, filtering.raw[i]) }

PlaceOf(i) == Cardinality({ j \in Contributing : j <= i })

\* C27: the category filter decides per item, by exclusion, then allow-list,
\* then minimum length: an item matching an exclusion pattern adds nothing,
\* except that in stakeholders an excluded item matching a role pattern adds
\* a role token it contains and never the item itself; an item that is kept
\* is added unchanged, in input order and as often as it is listed.
C27_PerItemInOrder ==
    Filtered =>
        /\ Len(filtering.filtered) = Cardinality(Contributing)
        /\ \A i \in Contributing :
              IF NamesOrganization(filtering.raw[i])
              THEN /\ filtering.filtered[PlaceOf(i)] \in RoleTokens
                   /\ Contains(filtering.raw[i], filtering.filtered[PlaceOf(i)])
                   /\ filtering.filtered[PlaceOf(i)] # filtering.raw[i]
              ELSE filtering.filtered[PlaceOf(i)] = filtering.raw[i]

\* a stakeholders list naming the same organization and role twice, of which
\* the filter kept the role twice
C27_Witness ==
    /\ Filtered
    /\ filtering.category = "stakeholders"
    /\ Len(filtering.raw) = 2
    /\ filtering.raw[1] = filtering.raw[2]
    /\ NamesOrganization(filtering.raw[1])
    /\ Len(filtering.filtered) = 2
    /\ filtering.filtered[1] = filtering.filtered[2]
    /\ filtering.filtered[1] \in RoleTokens

----------------------------------------------------------------------------
(* C28: one phase for each category *)

\* the phase no other phase ranks before: no score is higher, and of the
\* phases with the highest score none has a lower index
TopRanked(cat, pk) ==
    \A other \in PhaseSet :
        \/ Score(cat, other) < Score(cat, pk)
        \/ Score(cat, other) = Score(cat, pk) /\ IndexOf(pk) <= IndexOf(other)

\* the phases that hold a term of the category
PhasesHolding(s, cat) == { pk \in PhaseSet : assignments[s][pk][cat] # << >> }

\* C28: in every plan all terms placed for a category are in one phase, the
\* top-ranked phase of the category; a phase ranked second or lower holds
\* none, whether or not its score is >= 0.6, and so phase_2 and phase_6 hold
\* no term of any category.
C28_OnePhasePerCategory ==
    \A s \in Sessions :
        calls[s] > 0 =>
            \A cat \in CategorySet :
                /\ Cardinality(PhasesHolding(s, cat)) <= 1
                /\ \A pk \in PhasesHolding(s, cat) : TopRanked(cat, pk)
                /\ \A pk \in PhaseSet :
                      (Score(cat, pk) >= 6 /\ ~ TopRanked(cat, pk))
                          => assignments[s][pk][cat] = << >>
                /\ assignments[s]["phase_2"][cat] = << >>
                /\ assignments[s]["phase_6"][cat] = << >>

\* a pass that placed two terms of a category in its top-ranked phase and
\* none in phase_2, the score of which is >= 0.6 for the category
C28_Witness ==
    /\ calls["s1"] = 1
    /\ \E cat \in CategorySet : \E pk \in PhaseSet :
          /\ Len(assignments["s1"][pk][cat]) >= 2
          /\ TopRanked(cat, pk)
          /\ Score(cat, "phase_2") >= 6
          /\ assignments["s1"]["phase_2"][cat] = << >>

----------------------------------------------------------------------------
(* C30: the stored verdict *)

\* what validate_job_specificity returns without looking at anything
Insufficient(out) ==
    /\ ~ out.is_valid
    /\ Len(out.errors) = 1
    /\ out.metrics = NoMetrics

\* C30: after any sequence of generate, regenerate and reset, the stored
\* verdict is true only if the stored vocabulary and the stored table are both
\* non-empty; the validation runs only on a non-empty table and a non-empty
\* vocabulary; it returns (false, one error, empty metrics) when either is
\* empty; and reset clears vocabulary, table, metrics and verdict together.
C30_VerdictNeedsVocabularyAndTable ==
    /\ session_state.validation_is_valid =>
           (session_state.job_info # NoInfo /\ session_state.bp_data # EmptyTable)
    /\ \A i \in 1..Len(last_click.validated) :
           /\ last_click.validated[i].info # NoInfo
           /\ last_click.validated[i].bp_data # EmptyTable
    /\ \A info \in UIVocabularies \cup { NoInfo }, table \in UITables \cup { EmptyTable } :
           (info = NoInfo \/ table = EmptyTable) =>
               Insufficient(validate_job_specificity(info, "none", table, "no_client", FALSE))
    /\ last_click.button = "reset" =>
           /\ session_state.job_info = NoInfo
           /\ session_state.bp_data = EmptyTable
           /\ session_state.validation_metrics = NoMetrics
           /\ ~ session_state.validation_is_valid

\* a table that failed for a phase without a term passed after its
\* regeneration
C30_Witness ==
    /\ last_click.button = "regenerate"
    /\ session_state.validation_is_valid
    /\ session_state.job_info # NoInfo
    /\ session_state.bp_data # EmptyTable

====
